---- MODULE Spec2Model ----
(***************************************************************************)
(* Model of the HashAB signature subsystem of src/modules/state.js:        *)
(*   initHashAB, calcHashAB, sha1, recomputeITunesCDBHash and              *)
(*   computeLocationsCBK, run by concurrent async calls that interleave    *)
(*   at their await points.                                                *)
(*                                                                         *)
(* Byte buffers (Uint8Array) are sequences of 0..255; the byte at JS       *)
(* offset o is element o+1 of the sequence.                                *)
(*                                                                         *)
(* The other modules each have their variables and their specification:   *)
(*   createTrackOps (SpecTracks), createMetadataEditor (SpecEditor),       *)
(*   createWasmApi (SpecApi), createAppState (SpecStore) and               *)
(*   createFirewireSetup (SpecFw). A specification leaves the variables    *)
(*   of the other modules as they are at creation.                         *)
(***************************************************************************)
EXTENDS Integers, Sequences, FiniteSets, TLC

\* ------------------------------------------------------------------------
\* Bounds of the model
\* ------------------------------------------------------------------------
\* number of recomputeITunesCDBHash / computeLocationsCBK calls in one run
NumTasks == 2
\* number of initHashAB calls in one run
NumInitCalls == 2
\* the longest container buffer drawn has 0xAB + 57 + ExtraLen bytes
ExtraLen == 1
\* Locations.itdb buffers are drawn with up to MaxBlocks full blocks
MaxBlocks == 1
\* header rewrites by the caller between calls in one run
MaxScribbles == 1
\* number of tracks in the database when the track operations start
MaxTracks == 3
\* length of the id list passed to deleteTracks
MaxIds == 3
\* length of the id list passed to showEditModal
MaxEditIds == 2
\* number of things the user does in the editor: open, close, clear, pick, save
MaxEditorEvents == 4
\* number of initWasm calls waiting for createModule at the same time
MaxLoading == 2
\* number of listener functions the callers of createAppState have
NumListeners == 2
\* number of items pushed to an array
MaxArrayLen == 1
\* length of the SysInfo text found on the iPod, in words
MaxContentLen == 3

\* ------------------------------------------------------------------------
\* Program constants (src/modules/state.js:139-148, 195-197)
\* ------------------------------------------------------------------------
MHBD_DB_ID_OFFSET == 24
MHBD_DB_ID_LEN == 8
MHBD_HASH58_OFFSET == 88
MHBD_HASH58_LEN == 20
MHBD_HASH72_OFFSET == 114
MHBD_HASH72_LEN == 46
MHBD_HASHAB_OFFSET == 171
MHBD_HASHAB_LEN == 57
MHBD_SCHEME_OFFSET == 48
CBK_BLOCK_SIZE == 1024
CBK_HEADER_SIZE == 57
CBK_SHA1_SIZE == 20
\* the literal 0xAB + 57 of the length check
MinContainerLen == 228
\* "mhbd" as char codes
MhbdMagic == <<109, 104, 98, 100>>

\* ------------------------------------------------------------------------
\* Uint8Array helpers
\* ------------------------------------------------------------------------
Zeros(n) == [k \in 1..n |-> 0]

\* TypedArray.prototype.slice(start, end), 0-based, end exclusive
Slice(s, start, end) == [k \in 1..(end - start) |-> s[start + k]]

\* TypedArray.prototype.fill(v, start, end): only indices inside the array
Fill(s, v, start, end) ==
    [k \in 1..Len(s) |-> IF (k - 1 >= start) /\ (k - 1 < end) THEN v ELSE s[k]]

\* TypedArray.prototype.set(src, offset); the callers keep it in range
SetAt(s, src, offset) ==
    [k \in 1..Len(s) |->
        IF (k - 1 >= offset) /\ (k - 1 < offset + Len(src))
        THEN src[k - offset] ELSE s[k]]

\* Math.ceil(a / b) for a >= 0, b > 0
CeilDiv(a, b) == (a + b - 1) \div b

Min(a, b) == IF a < b THEN a ELSE b

\* ------------------------------------------------------------------------
\* The two external engines, as deterministic functions of their inputs
\* ------------------------------------------------------------------------
RECURSIVE WSum(_, _, _, _)
\* sum of (weight of position) * byte over positions lo..hi, by halving
WSum(s, lo, hi, m) ==
    IF lo > hi THEN 0
    ELSE IF lo = hi THEN ((lo % m) + 1) * s[lo]
    ELSE LET mid == (lo + hi) \div 2
         IN  WSum(s, lo, mid, m) + WSum(s, mid + 1, hi, m)

\* crypto.subtle.digest('SHA-1', data): 20 bytes that depend on the length
\* and on every byte and its position
SHA1(d) ==
    LET a == WSum(d, 1, Len(d), 251) % 65521
        b == WSum(d, 1, Len(d), 7) % 65521
        n == Len(d) % 65521
    IN  [j \in 1..CBK_SHA1_SIZE |-> (a * j + b * (j * j + 2) + n * (j + 4) + 17 * j) % 256]

\* the wasm export calculateHash(): output from the two input areas;
\* the 57 bytes start with 03 00
CalculateHash(inSha1, inUuid) ==
    [k \in 1..MHBD_HASHAB_LEN |->
        IF k = 1 THEN 3
        ELSE IF k = 2 THEN 0
        ELSE (3 * inSha1[((k - 1) % Len(inSha1)) + 1]
              + 5 * inUuid[((k - 1) % Len(inUuid)) + 1]
              + 7 * inSha1[((k * k) % Len(inSha1)) + 1] + k) % 256]

\* ------------------------------------------------------------------------
\* Inputs the callers supply
\* ------------------------------------------------------------------------
\* 8-byte FirewireGuids; the first is the example of parseUUID's doc
Uuids == { <<0, 10, 39, 0, 36, 143, 83, 8>>, <<0, 10, 39, 0, 36, 143, 83, 9>> }

\* a correct and a wrong magic tag ("mhbd", "mhbx")
Magics == { MhbdMagic, <<109, 104, 98, 120>> }

\* bytes found in the header regions before a call
FillBytes == {0, 165}

\* the header regions a caller may rewrite between calls (offset, length)
Regions ==
    { [off |-> MHBD_DB_ID_OFFSET, len |-> MHBD_DB_ID_LEN],
      [off |-> MHBD_SCHEME_OFFSET, len |-> 2],
      [off |-> MHBD_HASH58_OFFSET, len |-> MHBD_HASH58_LEN],
      [off |-> MHBD_HASH72_OFFSET, len |-> MHBD_HASH72_LEN],
      [off |-> MHBD_HASHAB_OFFSET, len |-> MHBD_HASHAB_LEN] }

InRegion(o, r) == (o >= r.off) /\ (o < r.off + r.len)

\* empty, one byte short, exactly the minimum, and longer
ContainerLens == {0, MinContainerLen - 1, MinContainerLen, MinContainerLen + ExtraLen}

\* an iTunesCDB as read from the device: magic, header regions holding
\* `fill`, every other byte non-zero
MakeContainer(len, magic, fill) ==
    [k \in 1..len |->
        IF k <= 4 THEN magic[k]
        ELSE IF \E r \in Regions : InRegion(k - 1, r) THEN fill
        ELSE ((k * 7) % 255) + 1]

LocationsLens ==
    {0, 1} \cup { b * CBK_BLOCK_SIZE + e : b \in 1..MaxBlocks, e \in {-1, 0, 1} }

\* a Locations.itdb as read from the device; no byte is zero
MakeLocations(len) == [k \in 1..len |-> ((k * 11) % 255) + 1]

\* FirewireGuid strings as sequences of characters: the documented example,
\* its prefixes, and the example with one character replaced
ExampleGuid ==
    << "0", "0", "0", "A", "2", "7", "0", "0", "2", "4", "8", "F", "5", "3", "0", "8" >>

GuidChars == { "1", "9", "a", "F", "g", "x", "-", " " }

GuidPrefixes == { <<>>, <<"0", "x">>, <<"0", "X">> }

GuidBodies ==
    { SubSeq(ExampleGuid, 1, n) : n \in 0..Len(ExampleGuid) }
    \cup { [ExampleGuid EXCEPT ![p] = c] : p \in 1..Len(ExampleGuid), c \in GuidChars }

GuidStrs == { pre \o body : pre \in GuidPrefixes, body \in GuidBodies }

Tasks == 1..NumTasks

InitCalls == 1..NumInitCalls

\* ------------------------------------------------------------------------
\* State
\* ------------------------------------------------------------------------
VARIABLES
    wasmInstance,    \* module variable: 0 is null, n > 0 the n-th instance
    mem,             \* memory of that instance: the areas calcHashAB uses
    data,            \* the iTunesCDB buffer the callers pass (one object)
    locationsData,   \* the Locations.itdb buffer the callers pass
    inits,           \* the initHashAB calls: position and outcome
    tasks,           \* the hashing calls: locals, position, outcome
    instantiations,  \* number of instances WebAssembly.instantiate made
    scribbles,       \* number of header rewrites the caller did between calls
    parse            \* the parseUUID call: argument and outcome

\* createTrackOps (src/unnamed/part_001)
VARIABLES
    library,             \* the track list of the database engine, by index
    pendingFileDeletes,  \* appState.pendingFileDeletes
    del                  \* the deleteTrack / deleteTracks call: locals and outcome

trackVars == <<library, pendingFileDeletes, del>>

\* createMetadataEditor (src/unnamed/part_000)
VARIABLES
    editingTrackIds,  \* let editingTrackIds
    pendingArtwork,   \* let pendingArtwork: null, or the decoded artwork
    modalShown,       \* editMetadataModal has the class 'show'
    decodes,          \* the decodeAndResizeImage promises not yet settled: how many
                      \* were started after each number of resets
    events,           \* number of user events handled so far
    resets,           \* number of opens, closes and clears of the modal so far
    lastSave          \* what the last saveTrackEdits call saw and issued

editVars == <<editingTrackIds, pendingArtwork, modalShown, decodes, events, resets, lastSave>>

\* createWasmApi (src/modules/wasmApi.js)
VARIABLES
    createModuleIsFunction,  \* typeof createModule === 'function'
    wasmReady,               \* let wasmReady
    Module,                  \* let Module: null, or the module createModule gave
    loading,                 \* number of initWasm calls awaiting createModule
    everReady,               \* some initWasm call has succeeded
    lastInit,                \* how the initWasm call that settled last ended
    lastCall                 \* the last call of a wrapper: what it saw and did

apiVars == <<createModuleIsFunction, wasmReady, Module, loading, everReady, lastInit, lastCall>>

\* createAppState (src/modules/state.js)
VARIABLES
    state,         \* const state: the value under each key
    heap,          \* the items of each array object
    listeners,     \* const listeners
    unsubscribed,  \* the listeners whose unsubscribe function was called last
    lastSet,       \* the last set call: arguments, and what the listeners got
    copy           \* the object the last getState call returned

storeVars == <<state, heap, listeners, unsubscribed, lastSet, copy>>

\* createFirewireSetup (src/modules/firewireSetup.js)
VARIABLES
    fs,              \* the iPod folder: iPod_Control, Device, SysInfo, SysInfoExtended
    detectedDevice,  \* let detectedDevice
    lastFw           \* the last call of the module: arguments and outcome

fwVars == <<fs, detectedDevice, lastFw>>

\* the variables of the modules other than the hashAB one
appVars == <<trackVars, editVars, apiVars, storeVars, fwVars>>

vars == <<wasmInstance, mem, data, locationsData, inits, tasks,
          instantiations, scribbles, parse, appVars>>

\* the variables of the hashAB module
hashVars == <<wasmInstance, mem, data, locationsData, inits, tasks,
              instantiations, scribbles, parse>>

FreshMem == [sha1 |-> Zeros(CBK_SHA1_SIZE), uuid |-> Zeros(8), out |-> Zeros(MHBD_HASHAB_LEN)]

\* an initHashAB call that has not been made yet
IdleInit ==
    [ pc |-> "idle", ret |-> "none", err |-> "none",
      \* what the call saw and did, kept for the properties
      instAtCall |-> 0, instAtEnd |-> 0, fetched |-> FALSE, instantiated |-> FALSE,
      overlapped |-> FALSE ]

\* a hashing call that has not been made yet
IdleTask ==
    [ op |-> "none", pc |-> "idle", uuid |-> <<>>,
      buf |-> <<>>, i |-> 0, blockHashes |-> <<>>,
      sha1Hash |-> <<>>, sig |-> <<>>,
      ret |-> "none", cbk |-> <<>>, err |-> "none", warn |-> "none",
      \* what the call saw and did, kept for the properties
      pre |-> <<>>, post |-> <<>>,
      digestCalls |-> 0, signCalls |-> 0, instAtSign |-> 0 ]

\* a parseUUID call that has not been made yet
IdleParse == [ pc |-> "idle", guidStr |-> <<>>, bytes |-> <<>>, err |-> "none" ]

\* the next call is recorded in the first free slot
FirstIdle(calls, c) == calls[c].pc = "idle" /\ \A b \in 1..(c - 1) : calls[b].pc # "idle"

\* a deleteTrack / deleteTracks call that has not been made yet
IdleDel ==
    [ op |-> "none", pc |-> "idle", ids |-> <<>>, sorted |-> <<>>, okCount |-> 0,
      ok |-> FALSE, ret |-> "none",
      \* what the call saw and did, kept for the properties
      requested |-> <<>>, confirmed |-> FALSE, before |-> <<>>,
      hits |-> <<>>, failed |-> {}, internalCalls |-> 0,
      last |-> [ trackId |-> 0, declined |-> FALSE, result |-> 0,
                 hadPath |-> FALSE, file |-> 0 ] ]

\* no database loaded, no track operation called
TracksIdle ==
    /\ library = <<>>
    /\ pendingFileDeletes = <<>>
    /\ del = IdleDel

\* pendingArtwork = null
NoArtwork == [ null |-> TRUE, epoch |-> 0 ]

\* no saveTrackEdits call made yet
NoSave == [ count |-> 0, session |-> 0, ids |-> <<>>, issued |-> <<>> ]

\* the metadata editor after createMetadataEditor and init
EditorIdle ==
    /\ editingTrackIds = <<>>
    /\ pendingArtwork = NoArtwork
    /\ modalShown = FALSE
    /\ decodes = [e \in 0..MaxEditorEvents |-> 0]
    /\ events = 0
    /\ resets = 0
    /\ lastSave = NoSave

\* Module = null
NoModule == [ null |-> TRUE, ccall |-> FALSE ]

\* no wrapper called yet
NoCall == [ fn |-> "none", ready |-> FALSE, invoked |-> FALSE, threw |-> FALSE,
            ret |-> [ kind |-> "none", val |-> 0 ] ]

\* the wasm API after createWasmApi, before any call
ApiFresh ==
    /\ wasmReady = FALSE
    /\ Module = NoModule
    /\ loading = 0
    /\ everReady = FALSE
    /\ lastInit = "none"
    /\ lastCall = NoCall

\* the wasm API is not in use
ApiIdle == createModuleIsFunction = TRUE /\ ApiFresh

\* a boolean (0 is false, 1 is true), or the array object number v
Prim(b) == [ ref |-> FALSE, v |-> b ]

ArrayRef(a) == [ ref |-> TRUE, v |-> a ]

\* the value under each key, with the items of the arrays in place of the arrays
Deep(st, hp) ==
    [ k \in DOMAIN st |-> IF st[k].ref THEN [ ref |-> TRUE, items |-> hp[st[k].v] ]
                          ELSE [ ref |-> FALSE, items |-> <<st[k].v>> ] ]

\* const state = { isConnected: false, tracks: [], ... }
DefaultState == [ tracks |-> ArrayRef(1), isConnected |-> Prim(0) ]

\* the array objects of the callers: the [] of the default state, and another
Arrays == {1, 2}

NoSet ==
    [ count |-> 0, key |-> "tracks", value |-> ArrayRef(1), seen |-> ArrayRef(1),
      args |-> <<>>, calls |-> [l \in 1..NumListeners |-> 0] ]

NoCopy == [ exists |-> FALSE, mutated |-> FALSE, obj |-> DefaultState ]

\* the application state after createAppState()
StoreIdle ==
    /\ state = DefaultState
    /\ heap = [a \in Arrays |-> <<>>]
    /\ listeners = {}
    /\ unsubscribed = {}
    /\ lastSet = NoSet
    /\ copy = NoCopy

\* no file of that name
NoFile == [ exists |-> FALSE, text |-> <<>> ]

\* an iPod folder without iPod_Control
EmptyFolder == [ control |-> FALSE, device |-> FALSE, sysInfo |-> NoFile, sysInfoExt |-> NoFile ]

\* detectedDevice = null
NoDevice == [ null |-> TRUE, productId |-> 0 ]

NoFwCall ==
    [ op |-> "none", ret |-> FALSE, serial |-> "", productId |-> NoDevice,
      repeat |-> FALSE, replaced |-> FALSE ]

\* createFirewireSetup before any call
FwFresh == detectedDevice = NoDevice /\ lastFw = NoFwCall

\* the firewire setup module is not in use
FwIdle == fs = EmptyFolder /\ FwFresh

\* the modules other than the hashAB one are not in use
AppIdle == TracksIdle /\ EditorIdle /\ ApiIdle /\ StoreIdle /\ FwIdle

\* state after module load: no engine, no call made, no caller write yet
InitCommon ==
    /\ wasmInstance = 0
    /\ mem = FreshMem
    /\ tasks = [t \in Tasks |-> IdleTask]
    /\ instantiations = 0
    /\ scribbles = 0
    /\ parse = IdleParse

\* no initHashAB call made yet
NoInitYet == inits = [c \in InitCalls |-> IdleInit]

\* the application's startup initHashAB call is at its last await
StartupInitInFlight ==
    inits = [c \in InitCalls |->
                IF c = 1 THEN [IdleInit EXCEPT !.pc = "instantiate", !.fetched = TRUE]
                ELSE IdleInit]

\* ------------------------------------------------------------------------
\* recomputeITunesCDBHash, piece by piece
\* ------------------------------------------------------------------------
\* the length check without the 57 signature bytes
TooSmall_OffsetOnly(d) == Len(d) < MHBD_HASHAB_OFFSET

\* data.length < 0xAB + 57
TooSmall(d) == Len(d) < MinContainerLen

\* the magic check on the first three characters only
WrongFormat_ThreeChars(d) == <<d[1], d[2], d[3]>> # <<109, 104, 98>>

\* String.fromCharCode(data[0..3]) !== 'mhbd' (only evaluated when long enough)
WrongFormat(d) == <<d[1], d[2], d[3], d[4]>> # MhbdMagic

\* the scheme written as a single byte, the high byte left as it is
SetScheme_LowByteOnly(d) == [d EXCEPT ![MHBD_SCHEME_OFFSET + 1] = 3]

\* the scheme bytes set and the signature region cleared ahead of the signing
SetScheme_ClearsSignature(d) ==
    Fill([d EXCEPT ![MHBD_SCHEME_OFFSET + 1] = 3, ![MHBD_SCHEME_OFFSET + 2] = 0],
         0, MHBD_HASHAB_OFFSET, MHBD_HASHAB_OFFSET + MHBD_HASHAB_LEN)

\* data[MHBD_SCHEME_OFFSET] = 0x03; data[MHBD_SCHEME_OFFSET + 1] = 0x00
SetScheme(d) ==
    [d EXCEPT ![MHBD_SCHEME_OFFSET + 1] = 3, ![MHBD_SCHEME_OFFSET + 2] = 0]

\* the copy with digest region B zeroed one byte short
ZeroedCopy_ShortHash72(d) ==
    LET b1 == Fill(d, 0, MHBD_DB_ID_OFFSET, MHBD_DB_ID_OFFSET + MHBD_DB_ID_LEN)
        b2 == Fill(b1, 0, MHBD_HASH58_OFFSET, MHBD_HASH58_OFFSET + MHBD_HASH58_LEN)
        b3 == Fill(b2, 0, MHBD_HASH72_OFFSET, MHBD_HASH72_OFFSET + MHBD_HASH72_LEN - 1)
    IN  Fill(b3, 0, MHBD_HASHAB_OFFSET, MHBD_HASHAB_OFFSET + MHBD_HASHAB_LEN)

\* the copy with the device-identifier field left as it is
ZeroedCopy_KeepsDbId(d) ==
    LET b2 == Fill(d, 0, MHBD_HASH58_OFFSET, MHBD_HASH58_OFFSET + MHBD_HASH58_LEN)
        b3 == Fill(b2, 0, MHBD_HASH72_OFFSET, MHBD_HASH72_OFFSET + MHBD_HASH72_LEN)
    IN  Fill(b3, 0, MHBD_HASHAB_OFFSET, MHBD_HASHAB_OFFSET + MHBD_HASHAB_LEN)

\* the copy with the signature region left as it is
ZeroedCopy_KeepsHashAB(d) ==
    LET b1 == Fill(d, 0, MHBD_DB_ID_OFFSET, MHBD_DB_ID_OFFSET + MHBD_DB_ID_LEN)
        b2 == Fill(b1, 0, MHBD_HASH58_OFFSET, MHBD_HASH58_OFFSET + MHBD_HASH58_LEN)
    IN  Fill(b2, 0, MHBD_HASH72_OFFSET, MHBD_HASH72_OFFSET + MHBD_HASH72_LEN)

\* buf = new Uint8Array(data) followed by the four buf.fill(0, ...)
ZeroedCopy(d) ==
    LET b0 == d
        b1 == Fill(b0, 0, MHBD_DB_ID_OFFSET, MHBD_DB_ID_OFFSET + MHBD_DB_ID_LEN)
        b2 == Fill(b1, 0, MHBD_HASH58_OFFSET, MHBD_HASH58_OFFSET + MHBD_HASH58_LEN)
        b3 == Fill(b2, 0, MHBD_HASH72_OFFSET, MHBD_HASH72_OFFSET + MHBD_HASH72_LEN)
        b4 == Fill(b3, 0, MHBD_HASHAB_OFFSET, MHBD_HASHAB_OFFSET + MHBD_HASHAB_LEN)
    IN  b4

\* the signature written into the zeroed buffer (the fills done on data itself)
PatchOriginal_Zeroed(d, sig) == SetAt(ZeroedCopy(d), sig, MHBD_HASHAB_OFFSET)

\* data.set(sig, MHBD_HASHAB_OFFSET)
PatchOriginal(d, sig) == SetAt(d, sig, MHBD_HASHAB_OFFSET)

\* ------------------------------------------------------------------------
\* calcHashAB
\* ------------------------------------------------------------------------
\* calcHashAB without its guard: it never throws
CalcHashABThrows_Never(inst) == FALSE

\* if (!wasmInstance) throw ...
CalcHashABThrows(inst) == inst = 0

\* calcHashAB with calculateHash() run before the uuid is written: the engine
\* reads the uuid the previous call left in memory
MemAfterCalc_HashBeforeUuid(m, sha1Hash, uuid) ==
    LET m1 == [m EXCEPT !.sha1 = SetAt(m.sha1, sha1Hash, 0)]
        m2 == [m1 EXCEPT !.out = CalculateHash(m1.sha1, m1.uuid)]
    IN  [m2 EXCEPT !.uuid = SetAt(m2.uuid, uuid, 0)]

\* mem.set(sha1, sha1Ptr); mem.set(uuid, uuidPtr); calculateHash()
MemAfterCalc(m, sha1Hash, uuid) ==
    LET m1 == [m EXCEPT !.sha1 = SetAt(m.sha1, sha1Hash, 0)]
        m2 == [m1 EXCEPT !.uuid = SetAt(m1.uuid, uuid, 0)]
    IN  [m2 EXCEPT !.out = CalculateHash(m2.sha1, m2.uuid)]

\* new Uint8Array(mem.slice(outputPtr, outputPtr + 57))
CalcHashABResult(m) == Slice(m.out, 0, MHBD_HASHAB_LEN)

\* ------------------------------------------------------------------------
\* computeLocationsCBK, piece by piece
\* ------------------------------------------------------------------------
\* Math.floor in place of Math.ceil: a short final block is not counted
NumBlocks_Floor(ld) == Len(ld) \div CBK_BLOCK_SIZE

\* a block count that is never zero
NumBlocks_AtLeastOne(ld) ==
    IF Len(ld) = 0 THEN 1 ELSE CeilDiv(Len(ld), CBK_BLOCK_SIZE)

\* Math.ceil(locationsData.length / CBK_BLOCK_SIZE)
NumBlocks(ld) == CeilDiv(Len(ld), CBK_BLOCK_SIZE)

\* the slice of block i as it is, without the padding
PaddedBlock_NoPadding(ld, i) ==
    LET start == i * CBK_BLOCK_SIZE
        end == Min(start + CBK_BLOCK_SIZE, Len(ld))
    IN  Slice(ld, start, end)

\* the slice of block i, zero-padded to CBK_BLOCK_SIZE when shorter
PaddedBlock(ld, i) ==
    LET start == i * CBK_BLOCK_SIZE
        end == Min(start + CBK_BLOCK_SIZE, Len(ld))
        block == Slice(ld, start, end)
    IN  IF Len(block) < CBK_BLOCK_SIZE
        THEN SetAt(Zeros(CBK_BLOCK_SIZE), block, 0)
        ELSE block

\* allHashes with the block hashes in decreasing index order
AllHashes_Reversed(blockHashes, numBlocks) ==
    [k \in 1..(numBlocks * CBK_SHA1_SIZE) |->
        blockHashes[numBlocks - ((k - 1) \div CBK_SHA1_SIZE)][((k - 1) % CBK_SHA1_SIZE) + 1]]

\* allHashes: blockHashes[i] set at i * CBK_SHA1_SIZE
AllHashes(blockHashes, numBlocks) ==
    [k \in 1..(numBlocks * CBK_SHA1_SIZE) |->
        blockHashes[((k - 1) \div CBK_SHA1_SIZE) + 1][((k - 1) % CBK_SHA1_SIZE) + 1]]

\* cbk: sig at 0, masterSha1 at CBK_HEADER_SIZE, allHashes after it
BuildCBK(sig, masterSha1, allHashes, numBlocks) ==
    LET cbkSize == CBK_HEADER_SIZE + CBK_SHA1_SIZE + numBlocks * CBK_SHA1_SIZE
        c0 == Zeros(cbkSize)
        c1 == SetAt(c0, sig, 0)
        c2 == SetAt(c1, masterSha1, CBK_HEADER_SIZE)
    IN  SetAt(c2, allHashes, CBK_HEADER_SIZE + CBK_SHA1_SIZE)

\* ------------------------------------------------------------------------
\* parseUUID, piece by piece
\* ------------------------------------------------------------------------
LowerDigits ==
    << "0", "1", "2", "3", "4", "5", "6", "7", "8", "9", "a", "b", "c", "d", "e", "f" >>

UpperDigits ==
    << "0", "1", "2", "3", "4", "5", "6", "7", "8", "9", "A", "B", "C", "D", "E", "F" >>

\* is c a digit of radix 16
IsRadixDigit(c) == \E k \in 1..16 : LowerDigits[k] = c \/ UpperDigits[k] = c

\* the value of a radix-16 digit
DigitValue(c) == (CHOOSE k \in 1..16 : LowerDigits[k] = c \/ UpperDigits[k] = c) - 1

\* str.startsWith("0x") or "0X"
HasHexPrefix(str) == Len(str) >= 2 /\ str[1] = "0" /\ str[2] \in {"x", "X"}

\* guidStr.replace(/^0x/, ''): the pattern without the i flag
StripPrefix_CaseSensitive(guidStr) ==
    IF Len(guidStr) >= 2 /\ guidStr[1] = "0" /\ guidStr[2] = "x"
    THEN SubSeq(guidStr, 3, Len(guidStr))
    ELSE guidStr

\* guidStr.replace(/^0x/i, '')
StripPrefix(guidStr) ==
    IF HasHexPrefix(guidStr) THEN SubSeq(guidStr, 3, Len(guidStr)) ELSE guidStr

\* str.substr(start, length)
Substr(str, start, length) == SubSeq(str, start + 1, Min(start + length, Len(str)))

\* parseInt, step 2: leading white space is dropped
RECURSIVE TrimStart(_)
TrimStart(str) ==
    IF str # <<>> /\ Head(str) = " " THEN TrimStart(Tail(str)) ELSE str

\* parseInt: the longest prefix of radix-16 digits
RECURSIVE DigitPrefix(_)
DigitPrefix(str) ==
    IF str # <<>> /\ IsRadixDigit(Head(str))
    THEN <<Head(str)>> \o DigitPrefix(Tail(str))
    ELSE <<>>

\* parseInt: the number a sequence of radix-16 digits denotes
RECURSIVE DigitsValue(_)
DigitsValue(digits) ==
    IF digits = <<>> THEN 0
    ELSE 16 * DigitsValue(SubSeq(digits, 1, Len(digits) - 1)) + DigitValue(digits[Len(digits)])

\* parseInt(str, 16): white space, sign, an optional 0x, then the digits;
\* NaN when no digit is left
ParseInt16(str) ==
    LET s1 == TrimStart(str)
        negative == s1 # <<>> /\ Head(s1) = "-"
        s2 == IF s1 # <<>> /\ Head(s1) \in {"+", "-"} THEN Tail(s1) ELSE s1
        s3 == IF HasHexPrefix(s2) THEN SubSeq(s2, 3, Len(s2)) ELSE s2
        digits == DigitPrefix(s3)
    IN  IF digits = <<>>
        THEN [nan |-> TRUE, val |-> 0]
        ELSE [nan |-> FALSE,
              val |-> IF negative THEN 0 - DigitsValue(digits) ELSE DigitsValue(digits)]

\* bytes[i] = number: the store into a Uint8Array (NaN is stored as 0)
ToUint8(number) == IF number.nan THEN 0 ELSE number.val % 256

\* the loop of parseUUID over the eight pairs
ParseUUID(guidStr) ==
    LET hex == StripPrefix(guidStr)
    IN  [i \in 1..8 |-> ToUint8(ParseInt16(Substr(hex, (i - 1) * 2, 2)))]

\* parseUUID(guidStr)
CallParseUUID(guidStr) ==
    /\ parse.pc = "idle"
    /\ parse' = [IdleParse EXCEPT !.pc = "returned", !.guidStr = guidStr,
                                  !.bytes = ParseUUID(guidStr)]
    /\ UNCHANGED <<wasmInstance, mem, data, locationsData, inits, tasks,
                   instantiations, scribbles, appVars>>

\* ------------------------------------------------------------------------
\* initHashAB
\* ------------------------------------------------------------------------
\* initHashAB without its guard: it never returns early
InitReturnsEarly_Never(inst) == FALSE

\* if (wasmInstance) return;
InitReturnsEarly(inst) == inst # 0

\* initHashAB() is called: returns at once, or issues the fetch and suspends
CallInitHashAB(c) ==
    /\ FirstIdle(inits, c)
    /\ LET call == [IdleInit EXCEPT
                        !.instAtCall = wasmInstance,
                        !.overlapped = \E b \in InitCalls :
                            inits[b].pc \in {"fetch", "arrayBuffer", "instantiate"}]
       IN  IF InitReturnsEarly(wasmInstance)
           THEN inits' = [inits EXCEPT ![c] =
                    [call EXCEPT !.pc = "returned", !.ret = "undefined",
                                 !.instAtEnd = wasmInstance]]
           ELSE inits' = [inits EXCEPT ![c] =
                    [call EXCEPT !.pc = "fetch", !.fetched = TRUE]]
    /\ UNCHANGED <<wasmInstance, mem, data, locationsData, tasks, instantiations, scribbles, parse, appVars>>

\* await fetch(...) resolves; resp.arrayBuffer() is called
InitFetchResolve(c) ==
    /\ inits[c].pc = "fetch"
    /\ inits' = [inits EXCEPT ![c].pc = "arrayBuffer"]
    /\ UNCHANGED <<wasmInstance, mem, data, locationsData, tasks, instantiations, scribbles, parse, appVars>>

\* await resp.arrayBuffer() resolves; WebAssembly.instantiate is called
InitArrayBufferResolve(c) ==
    /\ inits[c].pc = "arrayBuffer"
    /\ inits' = [inits EXCEPT ![c].pc = "instantiate"]
    /\ UNCHANGED <<wasmInstance, mem, data, locationsData, tasks, instantiations, scribbles, parse, appVars>>

\* await WebAssembly.instantiate(...) resolves; wasmInstance = instance
InitInstantiateResolve(c) ==
    /\ inits[c].pc = "instantiate"
    /\ instantiations' = instantiations + 1
    /\ wasmInstance' = instantiations'
    /\ mem' = FreshMem
    /\ inits' = [inits EXCEPT ![c] =
            [@ EXCEPT !.pc = "returned", !.ret = "undefined",
                      !.instantiated = TRUE, !.instAtEnd = wasmInstance']]
    /\ UNCHANGED <<data, locationsData, tasks, scribbles, parse, appVars>>

\* a rejection that also drops the instance (wasmInstance = null in a catch)
InitReject_DropsInstance(c) ==
    /\ inits[c].pc \in {"fetch", "arrayBuffer", "instantiate"}
    /\ inits' = [inits EXCEPT ![c] =
            [@ EXCEPT !.pc = "thrown", !.err = "InitFailed", !.instAtEnd = 0]]
    /\ wasmInstance' = 0
    /\ UNCHANGED <<mem, data, locationsData, tasks, instantiations, scribbles, parse, appVars>>

\* one of the three awaited promises rejects: initHashAB rejects
InitReject(c) ==
    /\ inits[c].pc \in {"fetch", "arrayBuffer", "instantiate"}
    /\ inits' = [inits EXCEPT ![c] =
            [@ EXCEPT !.pc = "thrown", !.err = "InitFailed",
                      !.instAtEnd = wasmInstance]]
    /\ UNCHANGED <<wasmInstance, mem, data, locationsData, tasks, instantiations, scribbles, parse, appVars>>

\* ------------------------------------------------------------------------
\* recomputeITunesCDBHash(data, uuid)
\* ------------------------------------------------------------------------
\* the call up to `await sha1(buf)`
CallRecompute(t, uuid) ==
    /\ FirstIdle(tasks, t)
    /\ LET call == [IdleTask EXCEPT !.op = "patch", !.uuid = uuid, !.pre = data]
       IN  IF TooSmall(data)
           THEN /\ tasks' = [tasks EXCEPT ![t] =
                        [call EXCEPT !.pc = "returned", !.ret = "data",
                                     !.warn = "TooSmall", !.post = data]]
                /\ UNCHANGED data
           ELSE IF WrongFormat(data)
           THEN /\ tasks' = [tasks EXCEPT ![t] =
                        [call EXCEPT !.pc = "returned", !.ret = "data",
                                     !.warn = "WrongFormat", !.post = data]]
                /\ UNCHANGED data
           ELSE /\ data' = SetScheme(data)
                /\ tasks' = [tasks EXCEPT ![t] =
                        [call EXCEPT !.pc = "sha1", !.buf = ZeroedCopy(data'),
                                     !.digestCalls = 1]]
    /\ UNCHANGED <<wasmInstance, mem, locationsData, inits, instantiations, scribbles, parse, appVars>>

\* from the resolution of sha1(buf) to the return (or the throw of calcHashAB)
RecomputeResume(t) ==
    /\ tasks[t].op = "patch"
    /\ tasks[t].pc = "sha1"
    /\ LET sha1Hash == SHA1(tasks[t].buf)
           step == [tasks[t] EXCEPT !.sha1Hash = sha1Hash, !.buf = <<>>,
                                    !.signCalls = 1, !.instAtSign = wasmInstance]
       IN  IF CalcHashABThrows(wasmInstance)
           THEN /\ tasks' = [tasks EXCEPT ![t] =
                        [step EXCEPT !.pc = "thrown", !.err = "EngineNotInitialized",
                                     !.post = data]]
                /\ UNCHANGED <<mem, data>>
           ELSE /\ mem' = MemAfterCalc(mem, sha1Hash, tasks[t].uuid)
                /\ data' = PatchOriginal(data, CalcHashABResult(mem'))
                /\ tasks' = [tasks EXCEPT ![t] =
                        [step EXCEPT !.pc = "returned", !.ret = "data",
                                     !.sig = CalcHashABResult(mem'), !.post = data']]
    /\ UNCHANGED <<wasmInstance, locationsData, inits, instantiations, scribbles, parse, appVars>>

\* ------------------------------------------------------------------------
\* computeLocationsCBK(locationsData, uuid)
\* ------------------------------------------------------------------------
\* the call with the padding done in place: the source buffer is extended with
\* zero bytes to a whole number of blocks
CallComputeCBK_PadsSource(t, uuid) ==
    /\ FirstIdle(tasks, t)
    /\ LET call == [IdleTask EXCEPT !.op = "cbk", !.uuid = uuid, !.pre = locationsData,
                                    !.digestCalls = 1]
           numBlocks == NumBlocks(locationsData)
       IN  /\ locationsData' =
                locationsData \o Zeros(numBlocks * CBK_BLOCK_SIZE - Len(locationsData))
           /\ IF 0 < numBlocks
              THEN tasks' = [tasks EXCEPT ![t] =
                       [call EXCEPT !.pc = "block", !.buf = PaddedBlock(locationsData, 0)]]
              ELSE tasks' = [tasks EXCEPT ![t] =
                       [call EXCEPT !.pc = "master", !.buf = AllHashes(<<>>, 0)]]
    /\ UNCHANGED <<wasmInstance, mem, data, inits, instantiations, scribbles, parse, appVars>>

\* the call up to its first await: sha1 of block 0, or of the empty allHashes
CallComputeCBK(t, uuid) ==
    /\ FirstIdle(tasks, t)
    /\ LET call == [IdleTask EXCEPT !.op = "cbk", !.uuid = uuid, !.pre = locationsData,
                                    !.digestCalls = 1]
       IN  IF 0 < NumBlocks(locationsData)
           THEN tasks' = [tasks EXCEPT ![t] =
                    [call EXCEPT !.pc = "block", !.buf = PaddedBlock(locationsData, 0)]]
           ELSE tasks' = [tasks EXCEPT ![t] =
                    [call EXCEPT !.pc = "master", !.buf = AllHashes(<<>>, 0)]]
    /\ UNCHANGED <<wasmInstance, mem, data, locationsData, inits, instantiations, scribbles, parse, appVars>>

\* sha1(paddedBlock) resolves: push the hash, go on to the next await
CBKBlockResume(t) ==
    /\ tasks[t].op = "cbk"
    /\ tasks[t].pc = "block"
    /\ LET blockHashes == Append(tasks[t].blockHashes, SHA1(tasks[t].buf))
           i == tasks[t].i + 1
           numBlocks == NumBlocks(locationsData)
           step == [tasks[t] EXCEPT !.blockHashes = blockHashes, !.i = i,
                                    !.digestCalls = @ + 1]
       IN  IF i < numBlocks
           THEN tasks' = [tasks EXCEPT ![t] =
                    [step EXCEPT !.buf = PaddedBlock(locationsData, i)]]
           ELSE tasks' = [tasks EXCEPT ![t] =
                    [step EXCEPT !.pc = "master",
                                 !.buf = AllHashes(blockHashes, numBlocks)]]
    /\ UNCHANGED <<wasmInstance, mem, data, locationsData, inits, instantiations, scribbles, parse, appVars>>

\* sha1(allHashes) resolves: sign, assemble and return the cbk
CBKMasterResume(t) ==
    /\ tasks[t].op = "cbk"
    /\ tasks[t].pc = "master"
    /\ LET masterSha1 == SHA1(tasks[t].buf)
           numBlocks == NumBlocks(locationsData)
           step == [tasks[t] EXCEPT !.sha1Hash = masterSha1, !.signCalls = 1,
                                    !.instAtSign = wasmInstance,
                                    !.post = locationsData]
       IN  IF CalcHashABThrows(wasmInstance)
           THEN /\ tasks' = [tasks EXCEPT ![t] =
                        [step EXCEPT !.pc = "thrown", !.err = "EngineNotInitialized",
                                     !.buf = <<>>]]
                /\ UNCHANGED mem
           ELSE /\ mem' = MemAfterCalc(mem, masterSha1, tasks[t].uuid)
                /\ tasks' = [tasks EXCEPT ![t] =
                        [step EXCEPT !.pc = "returned", !.ret = "cbk", !.buf = <<>>,
                                     !.sig = CalcHashABResult(mem'),
                                     !.cbk = BuildCBK(CalcHashABResult(mem'), masterSha1,
                                                      tasks[t].buf, numBlocks)]]
    /\ UNCHANGED <<wasmInstance, data, locationsData, inits, instantiations, scribbles, parse, appVars>>

\* ------------------------------------------------------------------------
\* The caller between calls
\* ------------------------------------------------------------------------
PatchInFlight == \E t \in Tasks : tasks[t].op = "patch" /\ tasks[t].pc = "sha1"

\* between two patch calls (none is in flight, another can follow) the caller
\* rewrites one header region of the buffer, once per finished call
Scribble(r, v) ==
    /\ scribbles < MaxScribbles
    /\ ~PatchInFlight
    /\ scribbles < Cardinality({t \in Tasks : tasks[t].pc \in {"returned", "thrown"}})
    /\ \E t \in Tasks : tasks[t].pc = "idle"
    /\ data' = Fill(data, v, r.off, r.off + r.len)
    /\ data' # data
    /\ scribbles' = scribbles + 1
    /\ UNCHANGED <<wasmInstance, mem, locationsData, inits, tasks, instantiations, parse, appVars>>

\* ------------------------------------------------------------------------
\* Specifications
\* ------------------------------------------------------------------------
InitCallActions ==
    \/ \E c \in InitCalls : CallInitHashAB(c)
    \/ \E c \in InitCalls : InitFetchResolve(c)
    \/ \E c \in InitCalls : InitArrayBufferResolve(c)

InitEndActions ==
    \/ \E c \in InitCalls : InitInstantiateResolve(c)
    \/ \E c \in InitCalls : InitReject(c)

\* the engine lifecycle: initHashAB calls from module load on, and one hashing
\* call of either kind on a valid iTunesCDB or a one-byte Locations.itdb
InitEngine ==
    /\ InitCommon
    /\ AppIdle
    /\ NoInitYet
    /\ data = MakeContainer(MinContainerLen, MhbdMagic, 165)
    /\ locationsData = MakeLocations(1)

NextEngine ==
    \/ InitCallActions
    \/ InitEndActions
    \/ \E uuid \in Uuids : CallRecompute(1, uuid)
    \/ RecomputeResume(1)
    \/ \E uuid \in Uuids : CallComputeCBK(1, uuid)
    \/ CBKBlockResume(1)
    \/ CBKMasterResume(1)

SpecEngine == InitEngine /\ [][NextEngine]_vars

\* recomputeITunesCDBHash calls on one iTunesCDB buffer while the startup
\* initHashAB call completes or fails
InitPatch ==
    /\ InitCommon
    /\ AppIdle
    /\ StartupInitInFlight
    /\ \E len \in ContainerLens, magic \in Magics : data = MakeContainer(len, magic, 165)
    /\ locationsData = <<>>

NextPatch ==
    \/ InitEndActions
    \/ \E t \in Tasks, uuid \in Uuids : CallRecompute(t, uuid)
    \/ \E t \in Tasks : RecomputeResume(t)
    \/ \E r \in Regions, v \in FillBytes : Scribble(r, v)

SpecPatch == InitPatch /\ [][NextPatch]_vars

\* one computeLocationsCBK call on a Locations.itdb buffer while the startup
\* initHashAB call completes or fails
InitCBK ==
    /\ InitCommon
    /\ AppIdle
    /\ StartupInitInFlight
    /\ \E len \in LocationsLens : locationsData = MakeLocations(len)
    /\ data = <<>>

NextCBK ==
    \/ InitEndActions
    \/ \E uuid \in Uuids : CallComputeCBK(1, uuid)
    \/ CBKBlockResume(1)
    \/ CBKMasterResume(1)

SpecCBK == InitCBK /\ [][NextCBK]_vars

\* the engine is Ready (the startup initHashAB call has returned) and the
\* callers run hashing calls concurrently: at most one recomputeITunesCDBHash
\* call on the iTunesCDB buffer, computeLocationsCBK calls on the
\* Locations.itdb buffer
EngineReady ==
    /\ wasmInstance = 1
    /\ instantiations = 1
    /\ inits = [c \in InitCalls |->
                IF c = 1
                THEN [IdleInit EXCEPT !.pc = "returned", !.ret = "undefined",
                                      !.fetched = TRUE, !.instantiated = TRUE,
                                      !.instAtEnd = 1]
                ELSE IdleInit]

InitConc ==
    /\ EngineReady
    /\ AppIdle
    /\ mem = FreshMem
    /\ tasks = [t \in Tasks |-> IdleTask]
    /\ scribbles = 0
    /\ parse = IdleParse
    /\ data = MakeContainer(MinContainerLen, MhbdMagic, 165)
    /\ \E len \in {1, CBK_BLOCK_SIZE + 1} : locationsData = MakeLocations(len)

NoPatchCalled == \A b \in Tasks : tasks[b].op # "patch"

NextConc ==
    \/ \E t \in Tasks, uuid \in Uuids : NoPatchCalled /\ CallRecompute(t, uuid)
    \/ \E t \in Tasks : RecomputeResume(t)
    \/ \E t \in Tasks, uuid \in Uuids : CallComputeCBK(t, uuid)
    \/ \E t \in Tasks : CBKBlockResume(t)
    \/ \E t \in Tasks : CBKMasterResume(t)

SpecConc == InitConc /\ [][NextConc]_vars

\* one parseUUID call after module load, on a FirewireGuid string
InitParse ==
    /\ InitCommon
    /\ AppIdle
    /\ NoInitYet
    /\ data = <<>>
    /\ locationsData = <<>>

NextParse == \E guidStr \in GuidStrs : CallParseUUID(guidStr)

SpecParse == InitParse /\ [][NextParse]_vars

\* the hashAB module after module load, not in use
HashIdle ==
    /\ InitCommon
    /\ NoInitYet
    /\ data = <<>>
    /\ locationsData = <<>>

\* ------------------------------------------------------------------------
\* createTrackOps (src/unnamed/part_001): the database engine
\* ------------------------------------------------------------------------
\* the track the database holds under uid: every second one has no ipod_path
Track(uid) == [ uid |-> uid, ipod_path |-> [ present |-> uid % 2 = 0, file |-> uid ] ]

InitialLibrary == [k \in 1..MaxTracks |-> Track(k - 1)]

\* is trackId an index of the track list
ValidIndex(lib, trackId) == trackId >= 0 /\ trackId < Len(lib)

\* wasm.wasmGetJson('ipod_get_track_json', trackId): the track, or null
GetTrackJson(lib, trackId) ==
    IF ValidIndex(lib, trackId)
    THEN [ null |-> FALSE, track |-> lib[trackId + 1] ]
    ELSE [ null |-> TRUE, track |-> Track(0) ]

\* wasm.wasmCallWithError('ipod_remove_track', trackId): 0, or an error code
\* when the index is unknown or the engine fails
RemoveTrackResult(lib, trackId, engineOk) ==
    IF ValidIndex(lib, trackId) /\ engineOk THEN 0 ELSE -1

\* the track list after ipod_remove_track: the higher indexes shift down
LibraryAfterRemove(lib, trackId) ==
    [k \in 1..(Len(lib) - 1) |-> IF k <= trackId THEN lib[k] ELSE lib[k + 1]]

\* paths.toRelFsPathFromIpodDbPath(ipodPath): the file's path relative to
\* the iPod folder (the paths module is an injected dependency)
ToRelFsPath(ipodPath) == [ rel |-> ipodPath.file ]

\* ------------------------------------------------------------------------
\* deleteTrackInternal(trackId, { confirmOnce, ... }) up to its await: what it
\* returns and what it leaves in the engine and in appState
\* ------------------------------------------------------------------------
\* the queue with the path appended although the removal failed
QueueAfterRemove_EvenOnFailure(pending, result, relFsPath) ==
    IF relFsPath.present THEN Append(pending, relFsPath.path) ELSE pending

\* if (result !== 0) return false; if (relFsPath) pendingFileDeletes = [..., relFsPath]
QueueAfterRemove(pending, result, relFsPath) ==
    IF result = 0 /\ relFsPath.present THEN Append(pending, relFsPath.path) ELSE pending

DeleteTrackInternal(lib, pending, trackId, confirmOnce, answer, engineOk) ==
    IF confirmOnce /\ ~answer
    THEN [ ok |-> FALSE, library |-> lib, pending |-> pending,
           last |-> [ trackId |-> trackId, declined |-> TRUE, result |-> 0,
                      hadPath |-> FALSE, file |-> 0 ] ]
    ELSE LET json == GetTrackJson(lib, trackId)
             hasPath == ~json.null /\ json.track.ipod_path.present
             relFsPath == [ present |-> hasPath,
                            path |-> ToRelFsPath(json.track.ipod_path) ]
             result == RemoveTrackResult(lib, trackId, engineOk)
         IN  [ ok |-> result = 0,
               library |-> IF result = 0 THEN LibraryAfterRemove(lib, trackId) ELSE lib,
               pending |-> QueueAfterRemove(pending, result, relFsPath),
               last |-> [ trackId |-> trackId, declined |-> FALSE, result |-> result,
                          hadPath |-> hasPath, file |-> json.track.uid ] ]

\* ------------------------------------------------------------------------
\* deleteTrack(trackId)
\* ------------------------------------------------------------------------
\* the call up to the await of refreshCurrentView, or to the return of false
CallDeleteTrack(trackId, answer, engineOk) ==
    /\ del.pc = "idle"
    /\ LET r == DeleteTrackInternal(library, pendingFileDeletes, trackId, TRUE, answer, engineOk)
       IN  /\ library' = r.library
           /\ pendingFileDeletes' = r.pending
           /\ del' = [IdleDel EXCEPT !.op = "deleteTrack",
                          !.pc = IF r.ok THEN "refresh" ELSE "await",
                          !.ok = r.ok, !.confirmed = answer,
                          !.requested = <<[finite |-> TRUE, val |-> trackId]>>,
                          !.before = library,
                          !.hits = IF r.ok THEN <<[id |-> trackId, uid |-> r.last.file]>>
                                   ELSE <<>>,
                          !.failed = IF r.ok \/ r.last.declined THEN {} ELSE {trackId},
                          !.internalCalls = 1, !.last = r.last]
    /\ UNCHANGED <<hashVars, editVars, apiVars, storeVars, fwVars>>

\* refreshCurrentView resolves (or false is returned): deleteTrack returns
DeleteTrackResume ==
    /\ del.op = "deleteTrack"
    /\ del.pc \in {"refresh", "await"}
    /\ del' = [del EXCEPT !.pc = "returned", !.ret = "undefined"]
    /\ UNCHANGED <<hashVars, editVars, apiVars, storeVars, fwVars, library, pendingFileDeletes>>

\* ------------------------------------------------------------------------
\* deleteTracks(trackIds)
\* ------------------------------------------------------------------------
\* the ids a caller passes: numbers, or values that Number maps to NaN
NaN == [ finite |-> FALSE, val |-> 0 ]

IdValues == { [ finite |-> TRUE, val |-> v ] : v \in 0..MaxTracks } \cup { NaN }

TrackIdLists == UNION { [1..n -> IdValues] : n \in 0..MaxIds }

\* Array.from(new Set(list)): the first occurrence of every value, in order
RECURSIVE Dedupe(_)
Dedupe(list) ==
    IF list = <<>> THEN <<>>
    ELSE LET init == Dedupe(SubSeq(list, 1, Len(list) - 1))
             x == list[Len(list)]
         IN  IF \E k \in 1..Len(init) : init[k] = x THEN init ELSE Append(init, x)

\* .filter(Number.isFinite), as numbers
RECURSIVE FilterFinite(_)
FilterFinite(list) ==
    IF list = <<>> THEN <<>>
    ELSE IF Head(list).finite
         THEN <<Head(list).val>> \o FilterFinite(Tail(list))
         ELSE FilterFinite(Tail(list))

\* a sort that puts the lowest index first
RECURSIVE SortDesc_Ascending(_)
SortDesc_Ascending(ids) ==
    IF ids = <<>> THEN <<>>
    ELSE LET lo == CHOOSE k \in 1..Len(ids) : \A j \in 1..Len(ids) : ids[j] >= ids[k]
         IN  <<ids[lo]>> \o SortDesc_Ascending(SubSeq(ids, 1, lo - 1) \o SubSeq(ids, lo + 1, Len(ids)))

\* [...ids].sort((a, b) => b - a)
RECURSIVE SortDesc(_)
SortDesc(ids) ==
    IF ids = <<>> THEN <<>>
    ELSE LET hi == CHOOSE k \in 1..Len(ids) :
                        /\ \A j \in 1..Len(ids) : ids[j] <= ids[k]
                        /\ \A j \in 1..(k - 1) : ids[j] < ids[k]
         IN  <<ids[hi]>> \o SortDesc(SubSeq(ids, 1, hi - 1) \o SubSeq(ids, hi + 1, Len(ids)))

\* one turn of the loop: deleteTrackInternal(id, { confirmOnce: false, ... })
\* for the first id left, up to the await of its result
DeleteNext(call, engineOk) ==
    LET id == Head(call.sorted)
        r == DeleteTrackInternal(library, pendingFileDeletes, id, FALSE, TRUE, engineOk)
    IN  /\ library' = r.library
        /\ pendingFileDeletes' = r.pending
        /\ del' = [call EXCEPT !.pc = "loop", !.sorted = Tail(call.sorted), !.ok = r.ok,
                       !.hits = IF r.ok THEN Append(@, [id |-> id, uid |-> r.last.file])
                                ELSE @,
                       !.failed = IF r.ok THEN @ ELSE @ \cup {id},
                       !.internalCalls = @ + 1, !.last = r.last]

\* no call is in progress and deleteTracks has not been called
NoDeleteTracksYet == del.pc \in {"idle", "returned"} /\ del.op # "deleteTracks"

\* the call up to its first await: nothing to do, declined, or the first turn
CallDeleteTracks(trackIds, answer, engineOk) ==
    /\ NoDeleteTracksYet
    /\ LET ids == FilterFinite(Dedupe(trackIds))
           call == [IdleDel EXCEPT !.op = "deleteTracks", !.ids = ids,
                                   !.requested = trackIds, !.before = library]
       IN  IF Len(ids) = 0
           THEN /\ del' = [call EXCEPT !.pc = "returned", !.ret = "undefined"]
                /\ UNCHANGED <<library, pendingFileDeletes>>
           ELSE IF ~answer
           THEN /\ del' = [call EXCEPT !.pc = "returned", !.ret = "undefined"]
                /\ UNCHANGED <<library, pendingFileDeletes>>
           ELSE DeleteNext([call EXCEPT !.confirmed = TRUE, !.sorted = SortDesc(ids)],
                           engineOk)
    /\ UNCHANGED <<hashVars, editVars, apiVars, storeVars, fwVars>>

\* the result of a turn arrives: count it, then the next turn or the refresh
DeleteTracksResume(engineOk) ==
    /\ del.op = "deleteTracks"
    /\ del.pc = "loop"
    /\ LET call == [del EXCEPT !.okCount = IF del.ok THEN @ + 1 ELSE @]
       IN  IF call.sorted # <<>>
           THEN DeleteNext(call, engineOk)
           ELSE /\ del' = [call EXCEPT !.pc = "refresh"]
                /\ UNCHANGED <<library, pendingFileDeletes>>
    /\ UNCHANGED <<hashVars, editVars, apiVars, storeVars, fwVars>>

\* refreshCurrentView resolves: the summary is logged and the call returns
DeleteTracksRefreshed ==
    /\ del.op = "deleteTracks"
    /\ del.pc = "refresh"
    /\ del' = [del EXCEPT !.pc = "returned", !.ret = "undefined"]
    /\ UNCHANGED <<hashVars, editVars, apiVars, storeVars, fwVars, library, pendingFileDeletes>>

\* a database of MaxTracks tracks: at most one deleteTrack call, then one
\* deleteTracks call
InitTracks ==
    /\ HashIdle
    /\ EditorIdle
    /\ ApiIdle
    /\ StoreIdle
    /\ FwIdle
    /\ library = InitialLibrary
    /\ pendingFileDeletes = <<>>
    /\ del = IdleDel

NextTracks ==
    \/ \E trackId \in 0..MaxTracks, answer \in BOOLEAN, engineOk \in BOOLEAN :
            CallDeleteTrack(trackId, answer, engineOk)
    \/ DeleteTrackResume
    \/ /\ NoDeleteTracksYet
       /\ \E trackIds \in TrackIdLists, answer \in BOOLEAN, engineOk \in BOOLEAN :
            CallDeleteTracks(trackIds, answer, engineOk)
    \/ \E engineOk \in BOOLEAN : DeleteTracksResume(engineOk)
    \/ DeleteTracksRefreshed

SpecTracks == InitTracks /\ [][NextTracks]_vars

\* ------------------------------------------------------------------------
\* createMetadataEditor (src/unnamed/part_000)
\* ------------------------------------------------------------------------
\* the track indexes the engine knows in the editor runs
EditLibrarySize == 1

\* the id lists a caller passes to showEditModal: indexes, one index the
\* engine does not know, and a value that is not a finite number
EditIdValues == { [ finite |-> TRUE, val |-> v ] : v \in 0..EditLibrarySize } \cup { NaN }

EditIdLists == UNION { [1..n -> EditIdValues] : n \in 1..MaxEditIds }

\* .filter(id => Number.isFinite(id))
FiniteIds(trackIds) == FilterFinite(trackIds)

\* .map(id => wasm.wasmGetJson('ipod_get_track_json', id)).filter(Boolean)
TrackData(ids) == SelectSeq(ids, LAMBDA id : id >= 0 /\ id < EditLibrarySize)

\* showEditModal(trackIds)
ShowEditModal(trackIds) ==
    /\ events < MaxEditorEvents
    /\ events' = events + 1
    /\ editingTrackIds' = FiniteIds(trackIds)
    /\ IF Len(editingTrackIds') = 0 \/ Len(TrackData(editingTrackIds')) = 0
       THEN UNCHANGED <<pendingArtwork, modalShown, resets>>
       ELSE /\ pendingArtwork' = NoArtwork
            /\ modalShown' = TRUE
            /\ resets' = resets + 1
    /\ UNCHANGED <<hashVars, trackVars, apiVars, storeVars, fwVars, decodes, lastSave>>

\* hideEditModal()
HideEditModal ==
    /\ events < MaxEditorEvents
    /\ events' = events + 1
    /\ modalShown' = FALSE
    /\ editingTrackIds' = <<>>
    /\ pendingArtwork' = NoArtwork
    /\ resets' = resets + 1
    /\ UNCHANGED <<hashVars, trackVars, apiVars, storeVars, fwVars, decodes, lastSave>>

\* clearArtworkSelection(): the clear button, or the exported function
ClearArtworkSelection ==
    /\ events < MaxEditorEvents
    /\ events' = events + 1
    /\ pendingArtwork' = NoArtwork
    /\ resets' = resets + 1
    /\ UNCHANGED <<hashVars, trackVars, apiVars, storeVars, fwVars, editingTrackIds, modalShown, decodes, lastSave>>

\* the change handler of the file input up to `await decodeAndResizeImage(file)`;
\* the input is inside the modal
PickArtwork ==
    /\ modalShown
    /\ events < MaxEditorEvents
    /\ events' = events + 1
    /\ decodes' = [decodes EXCEPT ![resets] = @ + 1]
    /\ UNCHANGED <<hashVars, trackVars, apiVars, storeVars, fwVars, editingTrackIds, pendingArtwork, modalShown,
                   resets, lastSave>>

\* the decode resolves: pendingArtwork = the decoded artwork
DecodeResolve(e) ==
    /\ decodes[e] > 0
    /\ decodes' = [decodes EXCEPT ![e] = @ - 1]
    /\ pendingArtwork' = [ null |-> FALSE, epoch |-> e ]
    /\ UNCHANGED <<hashVars, trackVars, apiVars, storeVars, fwVars, editingTrackIds, modalShown, events, resets, lastSave>>

\* the decode rejects: the catch sets pendingArtwork = null
DecodeReject(e) ==
    /\ decodes[e] > 0
    /\ decodes' = [decodes EXCEPT ![e] = @ - 1]
    /\ pendingArtwork' = NoArtwork
    /\ UNCHANGED <<hashVars, trackVars, apiVars, storeVars, fwVars, editingTrackIds, modalShown, events, resets, lastSave>>

\* title || artist || album || genre || trackNr >= 0 || year > 0 || rating >= 0
HasMetadataChanges(form) ==
    form.title # "" \/ form.trackNr >= 0 \/ form.year > 0

\* what the user typed: nothing, a year of 0, a title, or a track number of 0
BlankForm == [ title |-> "", trackNr |-> -1, year |-> -1 ]

Forms ==
    { BlankForm,
      [ BlankForm EXCEPT !.year = 0 ],
      [ BlankForm EXCEPT !.title = "T" ],
      [ BlankForm EXCEPT !.trackNr = 0 ] }

\* the updates of track k of the batch: metadata, then artwork
UpdatesOf(ids, k, hasMeta, hasArt, art, metaRes, artRes) ==
    (IF hasMeta
     THEN << [ kind |-> "metadata", trackId |-> ids[k], result |-> metaRes[k], epoch |-> 0 ] >>
     ELSE <<>>)
    \o (IF hasArt
        THEN << [ kind |-> "artwork", trackId |-> ids[k], result |-> artRes[k],
                  epoch |-> art.epoch ] >>
        ELSE <<>>)

\* for (const trackId of editingTrackIds): the updates issued from track k on;
\* an artwork result of -2 breaks the loop
RECURSIVE SaveLoop(_, _, _, _, _, _, _)
SaveLoop(ids, k, hasMeta, hasArt, art, metaRes, artRes) ==
    IF k > Len(ids) THEN <<>>
    ELSE UpdatesOf(ids, k, hasMeta, hasArt, art, metaRes, artRes)
         \o (IF hasArt /\ artRes[k] = -2
             THEN <<>>
             ELSE SaveLoop(ids, k + 1, hasMeta, hasArt, art, metaRes, artRes))

\* number of updates of one kind that returned 0
Successes(issued, kind) ==
    Cardinality({ k \in 1..Len(issued) : issued[k].kind = kind /\ issued[k].result = 0 })

\* a save that closes the modal whatever the results
AllFailed_Never(metaSuccess, artSuccess) == FALSE

\* if (metaSuccess === 0 && artSuccess === 0) return
AllFailed(metaSuccess, artSuccess) == metaSuccess = 0 /\ artSuccess = 0

\* saveTrackEdits() with the form as typed and the results the engine gives
SaveTrackEdits(form, metaRes, artRes) ==
    /\ events < MaxEditorEvents
    /\ events' = events + 1
    /\ LET hasMeta == HasMetadataChanges(form)
           hasArt == ~pendingArtwork.null
           issued == IF Len(editingTrackIds) = 0 \/ (~hasMeta /\ ~hasArt)
                     THEN <<>>
                     ELSE SaveLoop(editingTrackIds, 1, hasMeta, hasArt, pendingArtwork,
                                   metaRes, artRes)
       IN  /\ lastSave' = [ count |-> lastSave.count + 1, session |-> resets,
                            ids |-> editingTrackIds, issued |-> issued ]
           /\ IF \/ Len(editingTrackIds) = 0
                 \/ (~hasMeta /\ ~hasArt)
                 \/ AllFailed(Successes(issued, "metadata"), Successes(issued, "artwork"))
              THEN UNCHANGED <<editingTrackIds, pendingArtwork, modalShown, resets>>
              ELSE \* hideEditModal()
                   /\ modalShown' = FALSE
                   /\ editingTrackIds' = <<>>
                   /\ pendingArtwork' = NoArtwork
                   /\ resets' = resets + 1
    /\ UNCHANGED <<hashVars, trackVars, apiVars, storeVars, fwVars, decodes>>

\* what the engine returns for each track of the batch; the results of a kind
\* of update that is not issued are not drawn
UpdateResults(wanted, codes) ==
    IF wanted THEN [1..Len(editingTrackIds) -> codes]
    ELSE { [k \in 1..Len(editingTrackIds) |-> 0] }

\* the editor from its creation on: the user opens and closes the modal, picks
\* artwork files, clears the artwork and saves, while the decodes settle
InitEditor ==
    /\ HashIdle
    /\ TracksIdle
    /\ EditorIdle
    /\ ApiIdle
    /\ StoreIdle
    /\ FwIdle

NextEditor ==
    \/ \E trackIds \in EditIdLists : ShowEditModal(trackIds)
    \/ HideEditModal
    \/ ClearArtworkSelection
    \/ PickArtwork
    \/ \E e \in 0..MaxEditorEvents : DecodeResolve(e)
    \/ \E e \in 0..MaxEditorEvents : DecodeReject(e)
    \/ /\ events < MaxEditorEvents
       /\ \E form \in Forms :
             \E metaRes \in UpdateResults(HasMetadataChanges(form), {0, -1}),
                artRes \in UpdateResults(~pendingArtwork.null, {0, -1, -2}) :
                   SaveTrackEdits(form, metaRes, artRes)

SpecEditor == InitEditor /\ [][NextEditor]_vars

\* ------------------------------------------------------------------------
\* createWasmApi (src/modules/wasmApi.js)
\* ------------------------------------------------------------------------
\* the modules createModule resolves with: built with ccall exported, or not
Modules == [ null : {FALSE}, ccall : BOOLEAN ]

\* what a wrapper returns
RetNull == [ kind |-> "null", val |-> 0 ]

RetNumber(n) == [ kind |-> "number", val |-> n ]

\* the codes a function of the module returns
ResultCodes == {0, -1, -2}

\* a catch that leaves wasmReady and Module as they are
AfterFailedInit_Unchanged(ready, module) == [ wasmReady |-> ready, Module |-> module ]

\* catch (e) { wasmReady = false; Module = null; return false; }
AfterFailedInit(ready, module) == [ wasmReady |-> FALSE, Module |-> NoModule ]

\* initWasm() up to `await createModule(...)`; without a createModule function
\* the throw inside the try goes to the catch at once
InitWasm ==
    /\ IF createModuleIsFunction
       THEN /\ loading < MaxLoading
            /\ loading' = loading + 1
            /\ UNCHANGED <<wasmReady, Module, lastInit>>
       ELSE /\ wasmReady' = AfterFailedInit(wasmReady, Module).wasmReady
            /\ Module' = AfterFailedInit(wasmReady, Module).Module
            /\ lastInit' = "failed"
            /\ UNCHANGED loading
    /\ UNCHANGED <<hashVars, trackVars, editVars, storeVars, fwVars, createModuleIsFunction, everReady, lastCall>>

\* createModule resolves: Module = the module; wasmReady = true; return true
InitWasmResolve(module) ==
    /\ loading > 0
    /\ loading' = loading - 1
    /\ Module' = module
    /\ wasmReady' = TRUE
    /\ everReady' = TRUE
    /\ lastInit' = "ok"
    /\ UNCHANGED <<hashVars, trackVars, editVars, storeVars, fwVars, createModuleIsFunction, lastCall>>

\* createModule rejects: the catch
InitWasmReject ==
    /\ loading > 0
    /\ loading' = loading - 1
    /\ wasmReady' = AfterFailedInit(wasmReady, Module).wasmReady
    /\ Module' = AfterFailedInit(wasmReady, Module).Module
    /\ lastInit' = "failed"
    /\ UNCHANGED <<hashVars, trackVars, editVars, storeVars, fwVars, createModuleIsFunction, everReady>>
    /\ UNCHANGED lastCall

\* a wrapper call leaves the state of the API as it is
ApiCallDone(call) ==
    /\ lastCall' = call
    /\ UNCHANGED <<hashVars, trackVars, editVars, storeVars, fwVars, createModuleIsFunction, wasmReady, Module,
                   loading, everReady, lastInit>>

\* wasmCall(funcName, ...args): the module has the function or not, and the
\* function returns a code or throws
WasmCall(found, throws, code) ==
    ApiCallDone(
        IF ~wasmReady \/ Module.null
        THEN [ fn |-> "wasmCall", ready |-> wasmReady, invoked |-> FALSE, threw |-> FALSE,
               ret |-> RetNull ]
        ELSE IF ~found
        THEN [ fn |-> "wasmCall", ready |-> wasmReady, invoked |-> FALSE, threw |-> FALSE,
               ret |-> RetNull ]
        ELSE [ fn |-> "wasmCall", ready |-> wasmReady, invoked |-> TRUE, threw |-> FALSE,
               ret |-> IF throws THEN RetNull ELSE RetNumber(code) ])

\* a wrapper that calls Module.ccall outside any try: wasmAddTrack, wasmUpdateTrack
CcallUnguarded(fn, throws, code) ==
    IF ~wasmReady \/ Module.null \/ ~Module.ccall
    THEN [ fn |-> fn, ready |-> wasmReady, invoked |-> FALSE, threw |-> FALSE,
           ret |-> RetNumber(-1) ]
    ELSE [ fn |-> fn, ready |-> wasmReady, invoked |-> TRUE, threw |-> throws,
           ret |-> IF throws THEN [ kind |-> "none", val |-> 0 ] ELSE RetNumber(code) ]

\* wasmAddTrack({...})
WasmAddTrack(throws, code) == ApiCallDone(CcallUnguarded("wasmAddTrack", throws, code))

\* wasmUpdateTrack(trackIndex, {...})
WasmUpdateTrack(throws, code) == ApiCallDone(CcallUnguarded("wasmUpdateTrack", throws, code))

\* the byte counts and sizes an artwork setter is called with
ByteCounts == {0, 4, 8}

Sides == {1, 2}

\* wasmSetTrackArtwork(trackIndex, imageBytes)
WasmSetTrackArtwork(bytes, throws, code) ==
    ApiCallDone(
        IF ~wasmReady \/ Module.null \/ ~Module.ccall
        THEN [ fn |-> "wasmSetTrackArtwork", ready |-> wasmReady, invoked |-> FALSE,
               threw |-> FALSE, ret |-> RetNumber(-1) ]
        ELSE IF bytes = 0
        THEN [ fn |-> "wasmSetTrackArtwork", ready |-> wasmReady, invoked |-> FALSE,
               threw |-> FALSE, ret |-> RetNumber(-1) ]
        ELSE [ fn |-> "wasmSetTrackArtwork", ready |-> wasmReady, invoked |-> TRUE,
               threw |-> FALSE, ret |-> IF throws THEN RetNumber(-1) ELSE RetNumber(code) ])

\* wasmSetTrackArtworkRGBA(trackIndex, rgbaData, width, height)
WasmSetTrackArtworkRGBA(bytes, width, height, throws, code) ==
    ApiCallDone(
        IF ~wasmReady \/ Module.null \/ ~Module.ccall
        THEN [ fn |-> "wasmSetTrackArtworkRGBA", ready |-> wasmReady, invoked |-> FALSE,
               threw |-> FALSE, ret |-> RetNumber(-1) ]
        ELSE IF bytes = 0 \/ bytes # width * height * 4
        THEN [ fn |-> "wasmSetTrackArtworkRGBA", ready |-> wasmReady, invoked |-> FALSE,
               threw |-> FALSE, ret |-> RetNumber(-1) ]
        ELSE [ fn |-> "wasmSetTrackArtworkRGBA", ready |-> wasmReady, invoked |-> TRUE,
               threw |-> FALSE, ret |-> IF throws THEN RetNumber(-1) ELSE RetNumber(code) ])

\* the wasm API from createWasmApi on, with a createModule function or without
InitApi ==
    /\ HashIdle
    /\ TracksIdle
    /\ EditorIdle
    /\ StoreIdle
    /\ FwIdle
    /\ createModuleIsFunction \in BOOLEAN
    /\ ApiFresh

NextApi ==
    \/ InitWasm
    \/ \E module \in Modules : InitWasmResolve(module)
    \/ InitWasmReject
    \/ \E found \in BOOLEAN, throws \in BOOLEAN, code \in ResultCodes :
          WasmCall(found, throws, code)
    \/ \E throws \in BOOLEAN, code \in ResultCodes : WasmAddTrack(throws, code)
    \/ \E throws \in BOOLEAN, code \in ResultCodes : WasmUpdateTrack(throws, code)
    \/ \E bytes \in ByteCounts, throws \in BOOLEAN, code \in ResultCodes :
          WasmSetTrackArtwork(bytes, throws, code)
    \/ \E bytes \in ByteCounts, width \in Sides, height \in Sides,
          throws \in BOOLEAN, code \in ResultCodes :
             WasmSetTrackArtworkRGBA(bytes, width, height, throws, code)

SpecApi == InitApi /\ [][NextApi]_vars

\* ------------------------------------------------------------------------
\* createAppState (src/modules/state.js)
\* ------------------------------------------------------------------------
StateKeys == {"tracks", "isConnected"}

\* the listener functions of the callers
Listeners == 1..NumListeners

\* the values a caller stores under a key
ValuesOf(key) ==
    IF key = "tracks" THEN { ArrayRef(a) : a \in Arrays } ELSE { Prim(0), Prim(1) }

\* oldValue !== value: arrays are identical when they are the same object
Changed(oldValue, value) == oldValue # value

\* set(key, value)
Set(key, value) ==
    LET oldValue == state[key]
        stored == [state EXCEPT ![key] = value]
        notify == Changed(oldValue, value)
    IN  /\ state' = stored
        /\ lastSet' = [ count |-> 1 + (lastSet.count % 2), key |-> key, value |-> value,
                        seen |-> stored[key],
                        args |-> IF notify /\ listeners # {} THEN <<key, value, oldValue>> ELSE <<>>,
                        calls |-> [l \in Listeners |-> IF notify /\ l \in listeners THEN 1 ELSE 0] ]
        /\ UNCHANGED <<hashVars, trackVars, editVars, apiVars, fwVars, heap, listeners, unsubscribed, copy>>

\* getState(): { ...state }
GetState ==
    /\ copy' = [ exists |-> TRUE, mutated |-> FALSE, obj |-> state ]
    /\ UNCHANGED <<hashVars, trackVars, editVars, apiVars, fwVars, state, heap, listeners, unsubscribed,
                   lastSet>>

\* subscribe(listener)
Subscribe(listener) ==
    /\ listeners' = listeners \cup {listener}
    /\ unsubscribed' = unsubscribed \ {listener}
    /\ UNCHANGED <<hashVars, trackVars, editVars, apiVars, fwVars, state, heap, lastSet, copy>>

\* the function subscribe(listener) returned: () => listeners.delete(listener)
Unsubscribe(listener) ==
    /\ listener \in listeners \cup unsubscribed
    /\ listeners' = listeners \ {listener}
    /\ unsubscribed' = unsubscribed \cup {listener}
    /\ UNCHANGED <<hashVars, trackVars, editVars, apiVars, fwVars, state, heap, lastSet, copy>>

\* a caller assigns a key of the object getState gave: copy[key] = value
CopyAssign(key, value) ==
    /\ copy.exists
    /\ copy' = [ copy EXCEPT !.obj[key] = value, !.mutated = TRUE ]
    /\ UNCHANGED <<hashVars, trackVars, editVars, apiVars, fwVars, state, heap, listeners, unsubscribed,
                   lastSet>>

\* a caller pushes an item to an array of the object getState gave:
\* copy[key].push(item)
CopyPush(key) ==
    /\ copy.exists
    /\ copy.obj[key].ref
    /\ Len(heap[copy.obj[key].v]) < MaxArrayLen
    /\ heap' = [ heap EXCEPT ![copy.obj[key].v] = Append(@, "item") ]
    /\ copy' = [ copy EXCEPT !.mutated = TRUE ]
    /\ UNCHANGED <<hashVars, trackVars, editVars, apiVars, fwVars, state, listeners, unsubscribed,
                   lastSet>>

\* the application state from createAppState() on
InitStore ==
    /\ HashIdle
    /\ TracksIdle
    /\ EditorIdle
    /\ ApiIdle
    /\ StoreIdle
    /\ FwIdle

NextStore ==
    \/ \E key \in StateKeys : \E value \in ValuesOf(key) : Set(key, value)
    \/ GetState
    \/ \E listener \in Listeners : Subscribe(listener)
    \/ \E listener \in Listeners : Unsubscribe(listener)
    \/ \E key \in StateKeys : \E value \in ValuesOf(key) : CopyAssign(key, value)
    \/ \E key \in StateKeys : CopyPush(key)

SpecStore == InitStore /\ [][NextStore]_vars

\* ------------------------------------------------------------------------
\* createFirewireSetup (src/modules/firewireSetup.js)
\* ------------------------------------------------------------------------
\* A text is a sequence of words; no word is part of another. The words of a
\* SysInfo file: the two keys, two other words, a blank and the line feed.
Words == { "FirewireGuid", "ModelNumStr", "x", "y", " ", "\n" }

Texts == UNION { [1..n -> Words] : n \in 0..MaxContentLen }

\* the texts of SysInfoExtended
ExtendedTexts == { <<>>, <<"x">>, <<"FirewireGuid">>, <<"FirewireGuid", "\n", "ModelNumStr">> }

\* ENCRYPTED_IPOD_MODELS: product id -> modelNumStr
ENCRYPTED_IPOD_MODELS ==
    [ p \in {4705, 4706, 4707, 4709, 4710, 4711} |->
        CASE p = 4705 -> "MB029"
          [] p = 4706 -> "MA978"
          [] p = 4707 -> "MB754"
          [] p = 4709 -> "MC031"
          [] p = 4710 -> "MC525"
          [] p = 4711 -> "MD480" ]

\* getModelInfo(productId): ENCRYPTED_IPOD_MODELS[productId] || null
GetModelInfo(productId) ==
    IF productId \in DOMAIN ENCRYPTED_IPOD_MODELS
    THEN [ null |-> FALSE, modelNumStr |-> ENCRYPTED_IPOD_MODELS[productId] ]
    ELSE [ null |-> TRUE, modelNumStr |-> "" ]

\* the product ids passed to writeFirewireGuid: a Classic, and an iPod that
\* is no encrypted model
ProductIds == {4705, 4608}

\* the product ids of the devices WebUSB finds: a Nano
DetectedIds == {4706}

Serials == {"000A27", "000B38"}

\* sysInfoContent.includes(word)
Includes(text, word) == \E i \in 1..Len(text) : text[i] = word

\* a check that is content with one of the two keys
HasBoth_Either(text) == Includes(text, "FirewireGuid") \/ Includes(text, "ModelNumStr")

\* hasFirewireGuid && hasModelNumStr
HasBoth(text) == Includes(text, "FirewireGuid") /\ Includes(text, "ModelNumStr")

\* readSysInfo(ipodHandle): the text of SysInfo, failing that of
\* SysInfoExtended; null when a directory or both files are missing
ReadSysInfo(folder) ==
    IF ~folder.control \/ ~folder.device THEN [ null |-> TRUE, text |-> <<>> ]
    ELSE IF folder.sysInfo.exists THEN [ null |-> FALSE, text |-> folder.sysInfo.text ]
    ELSE IF folder.sysInfoExt.exists THEN [ null |-> FALSE, text |-> folder.sysInfoExt.text ]
    ELSE [ null |-> TRUE, text |-> <<>> ]

\* checkFirewireGuid(ipodHandle): readSysInfo does not throw, so the catch
\* that returns true is never entered
CheckFirewireGuid ==
    /\ LET sysInfoContent == ReadSysInfo(fs)
       IN  lastFw' = [ NoFwCall EXCEPT
                         !.op = "check",
                         !.ret = IF sysInfoContent.null \/ sysInfoContent.text = <<>>
                                 THEN FALSE
                                 ELSE HasBoth(sysInfoContent.text) ]
    /\ UNCHANGED <<hashVars, trackVars, editVars, apiVars, storeVars, fs, detectedDevice>>

\* getDeviceViaWebUSB(): the user picks an iPod that has a serial number
GetDeviceViaWebUSB(productId) ==
    /\ detectedDevice' = [ null |-> FALSE, productId |-> productId ]
    /\ lastFw' = [ NoFwCall EXCEPT !.op = "detect" ]
    /\ UNCHANGED <<hashVars, trackVars, editVars, apiVars, storeVars, fs>>

\* existingContent.split('\n'): the lines from word i on, the line begun being cur
RECURSIVE SplitFrom(_, _, _)
SplitFrom(text, i, cur) ==
    IF i > Len(text) THEN <<cur>>
    ELSE IF text[i] = "\n" THEN <<cur>> \o SplitFrom(text, i + 1, <<>>)
    ELSE SplitFrom(text, i + 1, Append(cur, text[i]))

Split(text) == SplitFrom(text, 1, <<>>)

\* lines.join('\n')
RECURSIVE Join(_)
Join(lines) ==
    IF Len(lines) = 0 THEN <<>>
    ELSE IF Len(lines) = 1 THEN lines[1]
    ELSE lines[1] \o <<"\n">> \o Join(Tail(lines))

\* line.startsWith(word)
StartsWith(line, word) == Len(line) > 0 /\ line[1] = word

\* l.trim(): truthy when the line has a word that is no blank
NonBlank(line) == \E i \in 1..Len(line) : line[i] # " "

\* a filter that removes the FirewireGuid lines only
Stale_FirewireOnly(line) == StartsWith(line, "FirewireGuid")

\* the lines the filter removes
Stale(line) == StartsWith(line, "FirewireGuid") \/ StartsWith(line, "ModelNumStr")

\* `FirewireGuid: 0x${serialNumber}`
FirewireGuidLine(serialNumber) == <<"FirewireGuid", ": 0x", serialNumber>>

\* `ModelNumStr: ${modelInfo.modelNumStr}`
ModelNumStrLine(modelInfo) == <<"ModelNumStr", ": ", modelInfo.modelNumStr>>

\* productId ?? detectedDevice?.productId, then pid ? getModelInfo(pid) : null
ModelInfoFor(productId, detected) ==
    LET pid == IF productId.null THEN detected ELSE productId
    IN  IF pid.null \/ pid.productId = 0 THEN GetModelInfo(0) ELSE GetModelInfo(pid.productId)

\* newContent of writeFirewireGuid
NewContent(existingContent, serialNumber, modelInfo) ==
    LET kept == SelectSeq(Split(existingContent), LAMBDA line : ~Stale(line))
        lines == kept \o << FirewireGuidLine(serialNumber) >>
                      \o (IF modelInfo.null THEN <<>> ELSE << ModelNumStrLine(modelInfo) >>)
    IN  Join(SelectSeq(lines, NonBlank)) \o <<"\n">>

\* the text of SysInfo, '' when there is no such file
ExistingContent(folder) ==
    IF folder.control /\ folder.device /\ folder.sysInfo.exists THEN folder.sysInfo.text ELSE <<>>

\* writeFirewireGuid(ipodHandle, serialNumber, productId) on a folder that
\* can be written
WriteFirewireGuid(serialNumber, productId) ==
    LET modelInfo == ModelInfoFor(productId, detectedDevice)
        existingContent == ExistingContent(fs)
    IN  /\ fs' = [ fs EXCEPT !.control = TRUE, !.device = TRUE,
                     !.sysInfo = [ exists |-> TRUE,
                                   text |-> NewContent(existingContent, serialNumber, modelInfo) ] ]
        /\ lastFw' = [ op |-> "write", ret |-> TRUE,
                       serial |-> serialNumber, productId |-> productId,
                       repeat |-> /\ lastFw.op = "write"
                                  /\ lastFw.serial = serialNumber
                                  /\ lastFw.productId = productId,
                       replaced |-> \E k \in 1..Len(Split(existingContent)) :
                                       StartsWith(Split(existingContent)[k], "FirewireGuid") ]
        /\ UNCHANGED <<hashVars, trackVars, editVars, apiVars, storeVars, detectedDevice>>

\* the folders the user selects
Folders ==
    { EmptyFolder, [ EmptyFolder EXCEPT !.control = TRUE ] }
    \cup { [ control |-> TRUE, device |-> TRUE, sysInfo |-> NoFile, sysInfoExt |-> g ] :
             g \in {NoFile} \cup { [ exists |-> TRUE, text |-> t ] : t \in ExtendedTexts } }
    \cup { [ control |-> TRUE, device |-> TRUE, sysInfo |-> [ exists |-> TRUE, text |-> t ],
             sysInfoExt |-> g ] :
             t \in Texts,
             g \in { NoFile, [ exists |-> TRUE, text |-> <<"FirewireGuid", "\n", "ModelNumStr">> ] } }

\* the module on a folder the user selected
InitFw ==
    /\ HashIdle
    /\ TracksIdle
    /\ EditorIdle
    /\ ApiIdle
    /\ StoreIdle
    /\ fs \in Folders
    /\ FwFresh

NextFw ==
    \/ CheckFirewireGuid
    \/ \E productId \in DetectedIds : GetDeviceViaWebUSB(productId)
    \/ \E serialNumber \in Serials :
          \E productId \in {NoDevice} \cup { [ null |-> FALSE, productId |-> p ] : p \in ProductIds } :
             WriteFirewireGuid(serialNumber, productId)

SpecFw == InitFw /\ [][NextFw]_vars

\* ------------------------------------------------------------------------
\* Vocabulary of the properties
\* ------------------------------------------------------------------------
\* the byte at JS offset o
At(d, o) == d[o + 1]

\* offsets of the signature region, 0xAB .. 0xAB + 56
SigOffsets == 171..227

\* offsets of the hashing-scheme field, 0x30 .. 0x31
SchemeOffsets == 48..49

\* offsets of the device-identifier field and of the digest regions A and B
DbIdOffsets == 24..31

Hash58Offsets == 88..107

Hash72Offsets == 114..159

\* the offsets the working copy has zeroed
ZeroedOffsets == DbIdOffsets \cup Hash58Offsets \cup Hash72Offsets \cup SigOffsets

\* long enough and tagged 'mhbd'
ValidContainer(d) ==
    /\ Len(d) >= 228
    /\ At(d, 0) = 109 /\ At(d, 1) = 104 /\ At(d, 2) = 98 /\ At(d, 3) = 100

\* the 57 bytes a buffer holds at 0xAB
SigBytes(d) == [k \in 1..57 |-> At(d, 170 + k)]

IsPatch(t) == tasks[t].op = "patch"

\* a recomputeITunesCDBHash call that went through to its final return
Patched(t) == IsPatch(t) /\ tasks[t].pc = "returned" /\ tasks[t].signCalls = 1

\* ------------------------------------------------------------------------
\* C1: patching twice in a row with the same device id writes the same 57
\* signature bytes both times and the second call leaves the buffer as the
\* first call left it.
\* ------------------------------------------------------------------------
C1_PatchIdempotent ==
    \A t1 \in Tasks, t2 \in Tasks :
        ( /\ Patched(t1) /\ Patched(t2)
          /\ ValidContainer(tasks[t1].pre)
          /\ tasks[t2].pre = tasks[t1].post
          /\ tasks[t2].uuid = tasks[t1].uuid )
        => /\ SigBytes(tasks[t2].post) = SigBytes(tasks[t1].post)
           /\ tasks[t2].sig = tasks[t1].sig
           /\ tasks[t2].post = tasks[t1].post

\* a second call ran on the output of a first call that had changed the buffer
C1_Witness ==
    \E t1 \in Tasks, t2 \in Tasks :
        /\ t1 # t2
        /\ Patched(t1) /\ Patched(t2)
        /\ ValidContainer(tasks[t1].pre)
        /\ tasks[t1].post # tasks[t1].pre
        /\ tasks[t2].pre = tasks[t1].post
        /\ tasks[t2].uuid = tasks[t1].uuid

\* ------------------------------------------------------------------------
\* C2: the 57 bytes written at 0xAB are SignatureEngine(DigestEngine(C), id),
\* C being the buffer with the scheme field set to 3 and exactly the four
\* regions 0x18+8, 0x58+20, 0x72+46, 0xAB+57 zeroed.
\* ------------------------------------------------------------------------
\* the copy the claim describes, built from the buffer as the call received it
C2_ExpectedCopy(d) ==
    [k \in 1..Len(d) |->
        IF (k - 1) \in ZeroedOffsets THEN 0
        ELSE IF k - 1 = 48 THEN 3
        ELSE IF k - 1 = 49 THEN 0
        ELSE d[k]]

C2_SignatureOfZeroedCopy ==
    \A t \in Tasks :
        (Patched(t) /\ ValidContainer(tasks[t].pre))
        => /\ tasks[t].sha1Hash = SHA1(C2_ExpectedCopy(tasks[t].pre))
           /\ SigBytes(tasks[t].post) = CalculateHash(tasks[t].sha1Hash, tasks[t].uuid)

\* a call signed a buffer whose four regions and scheme field held other bytes
C2_Witness ==
    \E t \in Tasks :
        /\ Patched(t) /\ ValidContainer(tasks[t].pre)
        /\ \A o \in ZeroedOffsets \cup SchemeOffsets : At(tasks[t].pre, o) = 165
        /\ Len(tasks[t].pre) > 228

\* ------------------------------------------------------------------------
\* C3: a successful patch changes no byte of the original buffer outside the
\* signature region and the scheme field; the device-identifier field and the
\* digest regions keep their bytes and the length is unchanged.
\* ------------------------------------------------------------------------
C3_PatchFrame ==
    \A t \in Tasks :
        (Patched(t) /\ ValidContainer(tasks[t].pre))
        => /\ Len(tasks[t].post) = Len(tasks[t].pre)
           /\ \A o \in 0..(Len(tasks[t].pre) - 1) :
                  (o \notin SigOffsets /\ o \notin SchemeOffsets)
                  => At(tasks[t].post, o) = At(tasks[t].pre, o)

\* a successful patch of a buffer whose identifier and digest regions are
\* non-zero and which has a byte after the signature region
C3_Witness ==
    \E t \in Tasks :
        /\ Patched(t) /\ ValidContainer(tasks[t].pre)
        /\ At(tasks[t].pre, 24) # 0 /\ At(tasks[t].pre, 88) # 0 /\ At(tasks[t].pre, 114) # 0
        /\ Len(tasks[t].pre) > 228
        /\ SigBytes(tasks[t].post) # SigBytes(tasks[t].pre)

\* ------------------------------------------------------------------------
\* C4 as stated: for ANY buffer passed, after the call returns the bytes at
\* 0x30, 0x31 are 03 00.
\* ------------------------------------------------------------------------
C4_SchemeSetForAnyBuffer ==
    \A t \in Tasks :
        (IsPatch(t) /\ tasks[t].pc = "returned")
        => /\ Len(tasks[t].post) >= 50
           /\ At(tasks[t].post, 48) = 3
           /\ At(tasks[t].post, 49) = 0

\* C4 amended: for any buffer of at least 0xAB+57 bytes whose first four bytes
\* are 'mhbd', after the call returns the bytes at 0x30, 0x31 are 03 00.
C4_SchemeSetForValidBuffer ==
    \A t \in Tasks :
        (IsPatch(t) /\ tasks[t].pc = "returned" /\ ValidContainer(tasks[t].pre))
        => /\ At(tasks[t].post, 48) = 3
           /\ At(tasks[t].post, 49) = 0

\* a valid buffer whose scheme field held other bytes went through a call
C4_Witness ==
    \E t \in Tasks :
        /\ IsPatch(t) /\ tasks[t].pc = "returned" /\ ValidContainer(tasks[t].pre)
        /\ At(tasks[t].pre, 48) = 165 /\ At(tasks[t].pre, 49) = 165

\* ------------------------------------------------------------------------
\* C5: a buffer shorter than 228 bytes comes back as the same buffer with
\* every byte unchanged, without digest or signing call, with the TooSmall
\* warning; a buffer of exactly 228 bytes is not rejected as too small.
\* ------------------------------------------------------------------------
C5_TooSmallReturnedUnchanged ==
    \A t \in Tasks :
        IsPatch(t)
        => /\ (Len(tasks[t].pre) < 228)
                => /\ tasks[t].pc = "returned"
                   /\ tasks[t].ret = "data"
                   /\ tasks[t].post = tasks[t].pre
                   /\ tasks[t].digestCalls = 0
                   /\ tasks[t].signCalls = 0
                   /\ tasks[t].warn = "TooSmall"
           /\ (Len(tasks[t].pre) >= 228) => tasks[t].warn # "TooSmall"

\* a call received a buffer of 227 bytes
C5_Witness ==
    \E t \in Tasks : IsPatch(t) /\ Len(tasks[t].pre) = 227 /\ tasks[t].pc = "returned"

\* ------------------------------------------------------------------------
\* C6: a buffer of sufficient length whose first four bytes are not 'mhbd'
\* comes back with every byte unchanged, without digest or signing call, with
\* the WrongFormat warning.
\* ------------------------------------------------------------------------
C6_WrongFormatReturnedUnchanged ==
    \A t \in Tasks :
        (IsPatch(t) /\ Len(tasks[t].pre) >= 228 /\ ~ValidContainer(tasks[t].pre))
        => /\ tasks[t].pc = "returned"
           /\ tasks[t].ret = "data"
           /\ tasks[t].post = tasks[t].pre
           /\ tasks[t].digestCalls = 0
           /\ tasks[t].signCalls = 0
           /\ tasks[t].warn = "WrongFormat"

\* a call received a long enough buffer tagged 'mhbx' whose scheme field is not 3
C6_Witness ==
    \E t \in Tasks :
        /\ IsPatch(t) /\ Len(tasks[t].pre) >= 228 /\ ~ValidContainer(tasks[t].pre)
        /\ At(tasks[t].pre, 3) = 120
        /\ At(tasks[t].pre, 48) # 3
        /\ tasks[t].pc = "returned"

\* ------------------------------------------------------------------------
\* C7: two valid buffers of equal length that differ only inside the
\* identifier field, digest regions A and B, the signature region or the
\* scheme field get the same digest and, with the same device id, the same
\* signature.
\* ------------------------------------------------------------------------
C7_DifferOnlyInHeaderState(d1, d2) ==
    /\ Len(d1) = Len(d2)
    /\ \A o \in 0..(Len(d1) - 1) :
           (o \notin ZeroedOffsets /\ o \notin SchemeOffsets) => At(d1, o) = At(d2, o)

C7_DigestIgnoresHeaderState ==
    \A t1 \in Tasks, t2 \in Tasks :
        ( /\ Patched(t1) /\ Patched(t2)
          /\ ValidContainer(tasks[t1].pre) /\ ValidContainer(tasks[t2].pre)
          /\ C7_DifferOnlyInHeaderState(tasks[t1].pre, tasks[t2].pre) )
        => /\ tasks[t1].sha1Hash = tasks[t2].sha1Hash
           /\ (tasks[t1].uuid = tasks[t2].uuid)
                => SigBytes(tasks[t1].post) = SigBytes(tasks[t2].post)

\* two calls with the same device id patched buffers whose identifier fields differ
C7_Witness ==
    \E t1 \in Tasks, t2 \in Tasks :
        /\ Patched(t1) /\ Patched(t2)
        /\ ValidContainer(tasks[t1].pre) /\ ValidContainer(tasks[t2].pre)
        /\ C7_DifferOnlyInHeaderState(tasks[t1].pre, tasks[t2].pre)
        /\ At(tasks[t1].pre, 24) # At(tasks[t2].pre, 24)
        /\ tasks[t1].uuid = tasks[t2].uuid

\* ------------------------------------------------------------------------
\* C8: a signing call issued while the engine is not Ready fails at once with
\* EngineNotInitialized, which rejects the promise of the public operation;
\* no buffer is returned and no signature is written or returned.
\* ------------------------------------------------------------------------
C8_SignWhileNotReadyThrows ==
    \A t \in Tasks :
        (tasks[t].signCalls = 1 /\ tasks[t].instAtSign = 0)
        => /\ tasks[t].pc = "thrown"
           /\ tasks[t].err = "EngineNotInitialized"
           /\ tasks[t].ret = "none"
           /\ tasks[t].sig = <<>>
           /\ tasks[t].cbk = <<>>
           /\ IsPatch(t) => SigBytes(tasks[t].post) = SigBytes(tasks[t].pre)

\* computeLocationsCBK reached calcHashAB while wasmInstance was null, after
\* an initHashAB call had been made
C8_Witness ==
    \E t \in Tasks :
        /\ tasks[t].op = "cbk"
        /\ tasks[t].signCalls = 1 /\ tasks[t].instAtSign = 0
        /\ \E c \in InitCalls : inits[c].pc \in {"fetch", "arrayBuffer", "instantiate"}

\* ------------------------------------------------------------------------
\* C9: the lifecycle of the engine
\* ------------------------------------------------------------------------
InitInFlight == \E c \in InitCalls : inits[c].pc \in {"fetch", "arrayBuffer", "instantiate"}

InitHasFailed == \E c \in InitCalls : inits[c].pc = "thrown"

EngineState ==
    IF wasmInstance # 0 THEN "Ready"
    ELSE IF InitInFlight THEN "Initializing"
    ELSE IF InitHasFailed THEN "Failed"
    ELSE "Uninitialized"

C9_SpecTransitions ==
    { <<"Uninitialized", "Initializing">>, <<"Initializing", "Ready">>,
      <<"Initializing", "Failed">> }

\* C9 as stated: only the transitions Uninitialized->Initializing,
\* Initializing->Ready, Initializing->Failed are taken; Ready stays Ready; once
\* an initialization has failed the engine never becomes Ready.
C9_LifecycleAsStated ==
    [][ /\ (EngineState' # EngineState) => (<<EngineState, EngineState'>> \in C9_SpecTransitions)
        /\ (EngineState = "Ready") => (EngineState' = "Ready")
        /\ InitHasFailed => (EngineState' # "Ready") ]_vars

\* C9 amended: the transitions taken are those three and Failed->Initializing
\* (an initHashAB call after a failure fetches again, and the engine may then
\* become Ready); once Ready the engine stays Ready.
C9_LifecycleWithRetry ==
    [][ /\ (EngineState' # EngineState)
            => (<<EngineState, EngineState'>> \in
                    C9_SpecTransitions \cup { <<"Failed", "Initializing">> })
        /\ (EngineState = "Ready") => (EngineState' = "Ready") ]_vars

\* the engine is Ready after an initHashAB call that failed
C9_Witness ==
    /\ EngineState = "Ready"
    /\ \E c1 \in InitCalls, c2 \in InitCalls :
           /\ c1 < c2
           /\ inits[c1].pc = "thrown"
           /\ inits[c2].pc = "returned" /\ inits[c2].instantiated

\* ------------------------------------------------------------------------
\* C10: initHashAB called while the engine is Ready does no fetch and no
\* instantiation, leaves the instance unchanged and completes successfully.
\* ------------------------------------------------------------------------
C10_InitWhileReadyIsNoOp ==
    \A c \in InitCalls :
        (inits[c].pc # "idle" /\ inits[c].instAtCall # 0)
        => /\ inits[c].pc = "returned"
           /\ inits[c].err = "none"
           /\ ~inits[c].fetched
           /\ ~inits[c].instantiated
           /\ inits[c].instAtEnd = inits[c].instAtCall

\* an initHashAB call was made while an instance was installed
C10_Witness ==
    \E c \in InitCalls :
        inits[c].pc = "returned" /\ inits[c].instAtCall # 0 /\ wasmInstance = inits[c].instAtCall

\* ------------------------------------------------------------------------
\* C11: when initHashAB is called again while an earlier call is still at one
\* of its awaits, the module is fetched and instantiated at most once in
\* total, and the instance that made the engine Ready is never replaced.
\* ------------------------------------------------------------------------
C11_FetchCount == Cardinality({c \in InitCalls : inits[c].fetched})

C11_InitOnceUnderOverlap ==
    (\E c \in InitCalls : inits[c].overlapped)
    => /\ C11_FetchCount <= 1
       /\ instantiations <= 1
       /\ \A c \in InitCalls : inits[c].instantiated => inits[c].instAtEnd = wasmInstance

\* ------------------------------------------------------------------------
\* the signature a call gets when it is the only call made on a fresh engine
C12_AloneSig(digest, uuid) == CalcHashABResult(MemAfterCalc(FreshMem, digest, uuid))

\* C12: with the engine Ready, a recomputeITunesCDBHash call and
\* computeLocationsCBK calls that run concurrently on distinct buffers each
\* return exactly what the same call returns when it runs alone: every digest
\* of the call is the digest of its own input, and its signature is the one a
\* fresh engine gives for that digest and the call's own uuid, so no call
\* observes what another call wrote to the engine's memory.
C12_ConcurrentEqualsAlone ==
    \A t \in Tasks :
        tasks[t].pc = "returned" /\ tasks[t].instAtSign # 0
        => /\ tasks[t].op = "patch"
              => LET d1 == SetScheme(tasks[t].pre)
                 IN  /\ tasks[t].sha1Hash = SHA1(ZeroedCopy(d1))
                     /\ tasks[t].post =
                            PatchOriginal(d1, C12_AloneSig(tasks[t].sha1Hash, tasks[t].uuid))
           /\ tasks[t].op = "cbk"
              => LET numBlocks == NumBlocks(tasks[t].pre)
                     allHashes == AllHashes(tasks[t].blockHashes, numBlocks)
                 IN  /\ Len(tasks[t].blockHashes) = numBlocks
                     /\ \A i \in 1..numBlocks :
                            tasks[t].blockHashes[i] = SHA1(PaddedBlock(tasks[t].pre, i - 1))
                     /\ tasks[t].sha1Hash = SHA1(allHashes)
                     /\ tasks[t].cbk =
                            BuildCBK(C12_AloneSig(tasks[t].sha1Hash, tasks[t].uuid),
                                     tasks[t].sha1Hash, allHashes, numBlocks)

\* the patch call was made first and signed last, the checksum call ran
\* between with another uuid, and both have returned
C12_Witness ==
    /\ tasks[1].op = "patch" /\ tasks[1].pc = "returned"
    /\ tasks[2].op = "cbk" /\ tasks[2].pc = "returned"
    /\ tasks[1].uuid # tasks[2].uuid
    /\ mem.uuid = tasks[1].uuid
    /\ Len(tasks[2].pre) > CBK_BLOCK_SIZE

\* ------------------------------------------------------------------------
\* computeLocationsCBK calls that returned a checksum file
IsCBK(t) == tasks[t].op = "cbk"

BuiltCBK(t) == IsCBK(t) /\ tasks[t].pc = "returned"

\* C13: the returned buffer is signature (bytes 0..56), masterDigest (bytes
\* 57..76), then blockDigest[i] at bytes 77+20i .. 77+20i+19 in increasing block
\* index order; masterDigest is the digest of the concatenated block digests
\* and signature is the engine's signature of masterDigest and the uuid.
C13_CBKLayout ==
    \A t \in Tasks :
        BuiltCBK(t)
        => LET cbk == tasks[t].cbk
               n == Len(tasks[t].blockHashes)
               masterDigest == Slice(cbk, 57, 77)
           IN  /\ \A i \in 0..(n - 1) :
                    /\ Slice(cbk, 77 + 20 * i, 77 + 20 * i + 20) = tasks[t].blockHashes[i + 1]
                    /\ tasks[t].blockHashes[i + 1] = SHA1(PaddedBlock(tasks[t].pre, i))
               /\ masterDigest = SHA1(Slice(cbk, 77, Len(cbk)))
               /\ Slice(cbk, 0, 57) = CalculateHash(masterDigest, tasks[t].uuid)

\* a checksum file of two blocks whose digests differ
C13_Witness ==
    /\ BuiltCBK(1)
    /\ Len(tasks[1].blockHashes) = 2
    /\ tasks[1].blockHashes[1] # tasks[1].blockHashes[2]

\* ------------------------------------------------------------------------
\* ceil(L / 1024)
C14_Ceil(L) == (L \div 1024) + (IF L % 1024 = 0 THEN 0 ELSE 1)

\* C14: for a source buffer of length L the returned checksum file has length
\* exactly 77 + 20 * ceil(L / 1024).
C14_CBKLength ==
    \A t \in Tasks :
        BuiltCBK(t) => Len(tasks[t].cbk) = 77 + 20 * C14_Ceil(Len(tasks[t].pre))

\* a checksum file of a source whose length is one short of a block
C14_Witness ==
    /\ BuiltCBK(1)
    /\ Len(tasks[1].pre) % 1024 = 1023

\* ------------------------------------------------------------------------
\* C15: block i is the source bytes [1024*i, min(1024*(i+1), L)); only the final
\* block can be shorter than 1024 bytes and it is then right-padded with zero
\* bytes; when L is a multiple of 1024 no block is padded; when L is one more
\* than a multiple of 1024 the last block digest is the digest of that byte
\* followed by 1023 zero bytes; every digested block is 1024 bytes long.
C15_BlocksAndPadding ==
    \A t \in Tasks :
        IsCBK(t)
        => LET L == Len(tasks[t].pre)
               n == C14_Ceil(L)
               i == tasks[t].i
               lo == 1024 * i
               hi == IF 1024 * (i + 1) < L THEN 1024 * (i + 1) ELSE L
               done == Len(tasks[t].blockHashes)
           IN  /\ tasks[t].pc = "block"
                  => /\ Len(tasks[t].buf) = 1024
                     /\ \A j \in 1..(hi - lo) : tasks[t].buf[j] = tasks[t].pre[lo + j]
                     /\ \A j \in (hi - lo + 1)..1024 : tasks[t].buf[j] = 0
                     /\ hi - lo < 1024 => i = n - 1
                     /\ L % 1024 = 0 => tasks[t].buf = Slice(tasks[t].pre, lo, lo + 1024)
               /\ (done = n /\ L % 1024 = 1)
                  => tasks[t].blockHashes[n] = SHA1(<<tasks[t].pre[L]>> \o Zeros(1023))

\* the last block of a source one byte longer than a block has been digested
C15_Witness ==
    /\ IsCBK(1)
    /\ tasks[1].pc = "master"
    /\ Len(tasks[1].pre) = 1025
    /\ Len(tasks[1].blockHashes) = 2

\* ------------------------------------------------------------------------
\* C16: for an empty source buffer the block count is 0, no block is
\* digested, and exactly 77 bytes are returned: the signature of D and the
\* uuid followed by D, where D is the digest of the empty byte sequence.
C16_EmptySource ==
    \A t \in Tasks :
        (BuiltCBK(t) /\ tasks[t].pre = <<>>)
        => /\ tasks[t].i = 0
           /\ tasks[t].blockHashes = <<>>
           /\ tasks[t].digestCalls = 1
           /\ Len(tasks[t].cbk) = 77
           /\ tasks[t].cbk = CalculateHash(SHA1(<<>>), tasks[t].uuid) \o SHA1(<<>>)

C16_Witness == BuiltCBK(1) /\ tasks[1].pre = <<>> /\ tasks[1].sig # Zeros(57)

\* ------------------------------------------------------------------------
\* C17: computeLocationsCBK never mutates its source buffer: during the call
\* and after it, whether it returns or throws, the source has the bytes and
\* the length it had before; what it returns is a new buffer, not the source.
C17_SourceUnchanged ==
    \A t \in Tasks :
        IsCBK(t)
        => /\ locationsData = tasks[t].pre
           /\ tasks[t].pc \in {"returned", "thrown"} => tasks[t].post = tasks[t].pre
           /\ tasks[t].pc = "returned" => tasks[t].ret = "cbk"

\* a call on a source with a short final block has failed without a result
C17_Witness ==
    /\ IsCBK(1)
    /\ tasks[1].pc = "thrown"
    /\ Len(tasks[1].pre) % 1024 = 1

\* ------------------------------------------------------------------------
\* the sixteen characters after an optional 0x or 0X
C18_Body(str) ==
    IF Len(str) = 18 /\ str[1] = "0" /\ str[2] \in {"x", "X"}
    THEN SubSeq(str, 3, 18)
    ELSE str

\* the value of a hexadecimal character
C18_HexValue(c) ==
    CASE c = "0" -> 0 [] c = "1" -> 1 [] c = "2" -> 2 [] c = "3" -> 3
      [] c = "4" -> 4 [] c = "5" -> 5 [] c = "6" -> 6 [] c = "7" -> 7
      [] c = "8" -> 8 [] c = "9" -> 9
      [] c \in {"a", "A"} -> 10 [] c \in {"b", "B"} -> 11 [] c \in {"c", "C"} -> 12
      [] c \in {"d", "D"} -> 13 [] c \in {"e", "E"} -> 14 [] c \in {"f", "F"} -> 15
      [] OTHER -> 16

C18_SixteenHexChars(s) == Len(s) = 16 /\ \A k \in 1..16 : C18_HexValue(s[k]) < 16

\* C18: for a string s of 16 hex characters, parseUUID of s, of "0x" + s and
\* of "0X" + s return the same 8 bytes: byte i is the value of the hex pair
\* s[2i..2i+1]; "000A2700248F5308" gives 00 0A 27 00 24 8F 53 08.
C18_PrefixIgnored ==
    LET s == C18_Body(parse.guidStr)
    IN  (parse.pc = "returned" /\ C18_SixteenHexChars(s))
        => /\ Len(parse.bytes) = 8
           /\ \A i \in 0..7 :
                parse.bytes[i + 1] = 16 * C18_HexValue(s[2 * i + 1]) + C18_HexValue(s[2 * i + 2])
           /\ s = ExampleGuid => parse.bytes = <<0, 10, 39, 0, 36, 143, 83, 8>>

\* the documented example with the upper-case prefix has been parsed
C18_Witness ==
    /\ parse.pc = "returned"
    /\ parse.guidStr = <<"0", "X">> \o ExampleGuid
    /\ parse.bytes = <<0, 10, 39, 0, 36, 143, 83, 8>>

\* ------------------------------------------------------------------------
\* C19: when the string has fewer than 16 characters after the optional 0x
\* prefix, parseUUID fails with InvalidIdentifier and returns no 8-byte value.
C19_ShortIdentifierRejected ==
    LET s == IF HasHexPrefix(parse.guidStr)
             THEN SubSeq(parse.guidStr, 3, Len(parse.guidStr))
             ELSE parse.guidStr
    IN  (parse.pc # "idle" /\ Len(s) < 16)
        => /\ parse.pc = "thrown"
           /\ parse.err = "InvalidIdentifier"
           /\ parse.bytes = <<>>

\* ------------------------------------------------------------------------
\* C20: recomputeITunesCDBHash on a valid container while the engine is not
\* Ready fails, and the signature region keeps its previous bytes; the only
\* bytes that can differ from before the call are the scheme bytes at
\* 0x30..0x31, which are 03 00.
C20_FailedPatchFrame ==
    \A t \in Tasks :
        (IsPatch(t) /\ ValidContainer(tasks[t].pre)
         /\ tasks[t].signCalls = 1 /\ tasks[t].instAtSign = 0)
        => /\ tasks[t].pc = "thrown"
           /\ tasks[t].err = "EngineNotInitialized"
           /\ Len(tasks[t].post) = Len(tasks[t].pre)
           /\ SigBytes(tasks[t].post) = SigBytes(tasks[t].pre)
           /\ \A o \in 0..(Len(tasks[t].pre) - 1) :
                o \notin SchemeOffsets => At(tasks[t].post, o) = At(tasks[t].pre, o)
           /\ At(tasks[t].post, 48) = 3
           /\ At(tasks[t].post, 49) = 0

\* a call has failed on a buffer whose scheme bytes were not 03 00 before
C20_Witness ==
    \E t \in Tasks :
        /\ IsPatch(t) /\ ValidContainer(tasks[t].pre)
        /\ tasks[t].pc = "thrown"
        /\ At(tasks[t].pre, 48) # 3
        /\ At(tasks[t].post, 48) = 3
        /\ SigBytes(tasks[t].pre) # Zeros(57)

\* ------------------------------------------------------------------------
\* the tracks of the list before the call without those of the given uids
C21_Without(before, uids) == SelectSeq(before, LAMBDA tr : tr.uid \notin uids)

C21_FiniteRequested(call) ==
    { call.requested[k].val : k \in { j \in 1..Len(call.requested) : call.requested[j].finite } }

\* C21: deleteTracks removes exactly the tracks the caller named: the finite
\* ids are tried once each in strictly descending order, every removal hits
\* the track that had that index when deleteTracks was called, and no track
\* outside the requested set is removed.
C21_DeletesNamedTracks ==
    del.op = "deleteTracks"
    => LET hits == del.hits
           hitIds == { hits[k].id : k \in 1..Len(hits) }
           hitUids == { hits[k].uid : k \in 1..Len(hits) }
       IN  /\ \A k \in 1..Len(hits) : hits[k].uid = del.before[hits[k].id + 1].uid
           /\ \A k \in 1..(Len(hits) - 1) : hits[k].id > hits[k + 1].id
           /\ hitIds \subseteq C21_FiniteRequested(del)
           /\ hitIds \cap del.failed = {}
           /\ library = C21_Without(del.before, hitUids)
           /\ (del.pc = "returned" /\ del.confirmed)
              => /\ hitIds \cup del.failed = C21_FiniteRequested(del)
                 /\ del.internalCalls = Cardinality(C21_FiniteRequested(del))
                 /\ del.okCount = Len(hits)

\* a call with a repeated id has removed two tracks, the lower index last
C21_Witness ==
    /\ del.op = "deleteTracks"
    /\ del.pc = "returned"
    /\ Len(del.requested) = 3
    /\ del.requested[1] = del.requested[3]
    /\ Len(del.hits) = 2
    /\ del.hits[2].id = 0

\* ------------------------------------------------------------------------
\* deleteTrackInternal ran in this step
C22_InternalRan ==
    \/ del.pc \in {"idle", "returned"} /\ del'.internalCalls = 1
    \/ del.pc = "loop" /\ del'.internalCalls = del.internalCalls + 1

\* C22: deleteTrackInternal appends the track's relative file path to
\* appState.pendingFileDeletes if and only if ipod_remove_track returned 0 and
\* the track had an ipod_path; when the removal fails or the user declines,
\* the queue is unchanged; paths queued before are never dropped.
C22_QueueOnlyOnRemoval ==
    [][ pendingFileDeletes' =
            IF /\ C22_InternalRan
               /\ ~del'.last.declined
               /\ del'.last.result = 0
               /\ del'.last.hadPath
            THEN Append(pendingFileDeletes, [ rel |-> del'.last.file ])
            ELSE pendingFileDeletes ]_vars

\* two paths are queued, the second by a call in which a removal failed
C22_Witness ==
    /\ del.op = "deleteTracks"
    /\ del.pc = "returned"
    /\ del.failed # {}
    /\ Len(pendingFileDeletes) = 2
    /\ Len(del.hits) = 1

\* C23: an artwork whose decode was started before the most recent open,
\* close or clear of the modal is never held in pendingArtwork afterwards,
\* and saveTrackEdits never applies to the tracks of an editing session an
\* artwork whose decode was started before that session's last open or clear.
C23_StaleArtworkNeverHeld ==
    /\ ~pendingArtwork.null => pendingArtwork.epoch = resets
    /\ \A k \in 1..Len(lastSave.issued) :
          lastSave.issued[k].kind = "artwork"
             => lastSave.issued[k].epoch = lastSave.session

\* the step is a saveTrackEdits call
C24_SaveStep == lastSave'.count = lastSave.count + 1

\* some update of the call returned 0
C24_SomeSuccess(issued) == \E k \in 1..Len(issued) : issued[k].result = 0

C24_WitnessAllFailed ==
    /\ lastSave.count = 1
    /\ Len(lastSave.issued) > 0
    /\ ~C24_SomeSuccess(lastSave.issued)
    /\ modalShown
    /\ editingTrackIds = lastSave.ids

\* C25: isReady() is true only if the module is non-null; when the initWasm
\* call that settled last failed, wasmReady is false and Module is null,
\* whatever succeeded before; and a call of wasmCall, wasmAddTrack,
\* wasmUpdateTrack or an artwork setter made while not ready invokes no
\* function of the module, does not throw, and returns null (wasmCall) or -1.
C25_NotReadyNeverInvokes ==
    /\ wasmReady => ~Module.null
    /\ lastInit = "failed" => (~wasmReady /\ Module.null)
    /\ (lastCall.fn # "none" /\ ~lastCall.ready)
          => /\ ~lastCall.invoked
             /\ ~lastCall.threw
             /\ lastCall.ret = IF lastCall.fn = "wasmCall" THEN RetNull ELSE RetNumber(-1)

\* an initWasm call failed after an earlier one had succeeded, and
\* wasmUpdateTrack was then called
C25_Witness ==
    /\ everReady
    /\ lastInit = "failed"
    /\ lastCall.fn = "wasmUpdateTrack"
    /\ ~lastCall.ready
    /\ lastCall.ret = RetNumber(-1)

\* the step is a set call
C26_SetStep == lastSet'.count # lastSet.count

\* the step changes the object getState returned, or an array reached from it
C26_CopyStep == lastSet' = lastSet /\ copy'.mutated /\ (copy' # copy \/ heap' # heap)

\* a set call stores its value before the listeners run, and calls each
\* subscribed listener once with (key, value, oldValue) when the value differs
\* from the old one, and no listener otherwise; a listener whose unsubscribe
\* function was called since it was subscribed is not called
C26_SetNotifies ==
    C26_SetStep =>
        LET key == lastSet'.key
            value == lastSet'.value
            oldValue == state[key]
        IN  /\ state'[key] = value
            /\ lastSet'.seen = value
            /\ \A l \in Listeners :
                  /\ lastSet'.calls[l] = IF value # oldValue /\ l \in listeners THEN 1 ELSE 0
                  /\ l \in unsubscribed => lastSet'.calls[l] = 0
                  /\ lastSet'.calls[l] > 0 => lastSet'.args = <<key, value, oldValue>>

\* what the copy does keep apart: assigning a key of the object getState
\* returned, or pushing to an array reached from it, leaves the value stored
\* under every key the same value or the same array object
C26_CopyShallow ==
    [][/\ C26_SetNotifies
       /\ C26_CopyStep => state' = state]_vars

\* C26: set stores the value and notifies the subscribed listeners
\* exactly when it differs from the old one, and no mutation of the object
\* getState returned changes the stored state, the items of its arrays
\* included.
C26_SetNotifiesCopyIsolated ==
    [][/\ C26_SetNotifies
       /\ C26_CopyStep => Deep(state', heap') = Deep(state, heap)]_vars

\* C27: when SysInfo, or failing that SysInfoExtended, can be read from
\* iPod_Control/Device, checkFirewireGuid returns true exactly when the text
\* read contains both 'FirewireGuid' and 'ModelNumStr'.
C27_TrueIffBothKeys ==
    (lastFw.op = "check" /\ ~ReadSysInfo(fs).null)
       => (lastFw.ret <=> /\ Includes(ReadSysInfo(fs).text, "FirewireGuid")
                          /\ Includes(ReadSysInfo(fs).text, "ModelNumStr"))

\* there is no SysInfo, SysInfoExtended has both keys, and the check said true
C27_Witness ==
    /\ lastFw.op = "check"
    /\ ~fs.sysInfo.exists
    /\ fs.sysInfoExt.exists
    /\ lastFw.ret

\* SysInfo has one key only and the check said false
C27_WitnessOneKey ==
    /\ lastFw.op = "check"
    /\ fs.sysInfo.exists
    /\ Includes(fs.sysInfo.text, "FirewireGuid")
    /\ ~Includes(fs.sysInfo.text, "ModelNumStr")
    /\ ~lastFw.ret

\* C28: when iPod_Control/Device does not exist, checkFirewireGuid returns
\* true.
C28_TrueWithoutDeviceDir ==
    (lastFw.op = "check" /\ ~(fs.control /\ fs.device)) => lastFw.ret

\* the lines of a text that start with a word
C29_LinesWith(text, word) == SelectSeq(Split(text), LAMBDA line : StartsWith(line, word))

\* the non-blank lines of a text that start with neither key
C29_OtherLines(text) ==
    SelectSeq(Split(text), LAMBDA line :
        NonBlank(line) /\ ~StartsWith(line, "FirewireGuid") /\ ~StartsWith(line, "ModelNumStr"))

\* the step is a writeFirewireGuid call that is seen
C29_WriteStep == lastFw'.op = "write" /\ (lastFw' # lastFw \/ fs' # fs)

\* C29: after writeFirewireGuid(ipodHandle, serial, productId) SysInfo has
\* exactly one line starting with 'FirewireGuid', which is
\* 'FirewireGuid: 0x<serial>'; it has one 'ModelNumStr' line, with the
\* model's modelNumStr, when the product id (the argument, or failing that
\* the detected device's) is a known encrypted model, and none otherwise;
\* the other non-blank lines of the previous text are kept in order; and a
\* second write with the same arguments leaves the file as the first left it.
C29_WriteSysInfo ==
    [][C29_WriteStep =>
          LET previous == ExistingContent(fs)
              written == fs'.sysInfo.text
              modelInfo == ModelInfoFor(lastFw'.productId, detectedDevice)
          IN  /\ fs'.control /\ fs'.device /\ fs'.sysInfo.exists
              /\ C29_LinesWith(written, "FirewireGuid")
                    = << <<"FirewireGuid", ": 0x", lastFw'.serial>> >>
              /\ C29_LinesWith(written, "ModelNumStr")
                    = IF modelInfo.null THEN <<>>
                      ELSE << <<"ModelNumStr", ": ", modelInfo.modelNumStr>> >>
              /\ C29_OtherLines(written) = C29_OtherLines(previous)
              /\ lastFw'.repeat => fs' = fs]_vars

\* a second write with the same arguments for a known model, on a file that
\* had a FirewireGuid line and has a line of its own
C29_Witness ==
    /\ lastFw.op = "write"
    /\ lastFw.repeat
    /\ Includes(fs.sysInfo.text, "MB029")
    /\ Len(C29_OtherLines(fs.sysInfo.text)) > 0

\* a write replaced the FirewireGuid line the file had and kept another line
C29_WitnessReplaced ==
    /\ lastFw.op = "write"
    /\ lastFw.replaced
    /\ Len(C29_OtherLines(fs.sysInfo.text)) > 0

====
